---- MODULE Spec2Model ----
(***************************************************************************)
(* Model of the scraping pipeline of japan-event-finder: the eight         *)
(* per-source extractors (scrape()), BaseScraper.run(), and the run        *)
(* orchestrator runAllScrapers / runScraper with persistence through       *)
(* upsertEvent.                                                            *)
(*                                                                         *)
(* A listing page is not stored; the candidate blocks of a fetched page    *)
(* are drawn one at a time when the .each() callback processes them.       *)
(* A block is (title, link, throws): the trimmed title text, the href      *)
(* that the link selectors found, and whether field extraction throws      *)
(* inside the callback's try.  Titles are sequences of characters.         *)
(*                                                                         *)
(* Eight specifications share the variables.  Spec is one top-level call   *)
(* of the orchestrator or of run().  FieldSpec is one call of a field      *)
(* normalizer (dates, prices, area, category) or of a block callback on    *)
(* a block text, under a clock; texts are sequences of characters and the  *)
(* regular expressions of the source are matched by a backtracking         *)
(* matcher.  StoreSpec is a sequence of scrapes of one listing, each       *)
(* saved with upsertEvent into one store.  PiaSpec is one call of Ticket   *)
(* Pia's scrape() over its six category pages.  TitleSpec is one title     *)
(* classified by Billboard Live's isEnglishText.  TranslateSpec is a       *)
(* sequence of overlapping calls of translateJapaneseToEnglish on one      *)
(* cache.  ApiSpec is one request to POST /api/scrape or GET               *)
(* /api/cron/scrape and the orchestrator call it makes.  UiSpec is one     *)
(* session of the main page: filter and page changes and the /api/events   *)
(* requests they start, completing in any order.                           *)
(***************************************************************************)
EXTENDS Integers, Sequences, FiniteSets, TLC

(* ------------------------------ bounds -------------------------------- *)

\* number of candidate blocks processed in one top-level call
MaxBlocks == 2

(* ------------------------------ values -------------------------------- *)

\* title_en: null
Null == <<"NULL">>

\* candidate block titles after trim(): empty, one character, two
\* characters (with a digit run), three characters with / without a digit.
\* "bi", "jutsu", "ten" stand for one kanji each (non-Latin characters).
Titles == { <<>>, <<"K">>, <<"K", "9">>, <<"N", "o", "9">>, <<"bi", "jutsu", "ten">> }

Digits == {"0", "1", "2", "3", "4", "5", "6", "7", "8", "9"}

LatinLetters == {"K", "N", "o"}

LowerLetters == {"a", "b", "c", "d", "e", "f", "g", "h", "i", "j", "k", "l", "m", "n",
                 "o", "p", "q", "r", "s", "t", "u", "v", "w", "x", "y", "z"}

UpperLetters == {"A", "B", "C", "D", "E", "F", "G", "H", "I", "J", "K", "L", "M", "N",
                 "O", "P", "Q", "R", "S", "T", "U", "V", "W", "X", "Y", "Z"}

UpperSeq == << "A", "B", "C", "D", "E", "F", "G", "H", "I", "J", "K", "L", "M", "N",
               "O", "P", "Q", "R", "S", "T", "U", "V", "W", "X", "Y", "Z" >>

LowerSeq == << "a", "b", "c", "d", "e", "f", "g", "h", "i", "j", "k", "l", "m", "n",
               "o", "p", "q", "r", "s", "t", "u", "v", "w", "x", "y", "z" >>

\* the value of one digit character
DigitValue(c) ==
  CASE c = "0" -> 0 [] c = "1" -> 1 [] c = "2" -> 2 [] c = "3" -> 3 [] c = "4" -> 4
    [] c = "5" -> 5 [] c = "6" -> 6 [] c = "7" -> 7 [] c = "8" -> 8 [] c = "9" -> 9

\* the registered and unregistered extractor classes, by display name
TC == "Tokyo Cheapo"
JT == "Japan Travel"
TP == "Ticket Pia"
KB == "Kabuki-bito"
TAB == "Tokyo Art Beat"
NHK == "NHK Symphony"
BB == "Billboard Live"
PARCO == "Parco"

ScraperClasses == {TC, JT, TP, KB, TAB, NHK, BB, PARCO}

\* index.ts: registry of all available scrapers, in order
scrapers == <<TC, JT, TP, KB, TAB>>

baseUrl(s) ==
  CASE s = TC -> "https://tokyocheapo.com"
    [] s = JT -> "https://en.japantravel.com"
    [] s = TP -> "https://t.pia.jp"
    [] s = KB -> "https://www.kabuki-bito.jp"
    [] s = TAB -> "https://www.tokyoartbeat.com"
    [] s = NHK -> "https://www.nhkso.or.jp"
    [] s = BB -> "https://www.billboard-live.com"
    [] s = PARCO -> "https://art.parco.jp"

\* the listing pages each scrape() fetches, in order (paths)
ListingPages(s) ==
  CASE s = TC -> << "/events/", "/calendar/" >>
    [] s = JT -> << "/events", "/tokyo/events", "/osaka/events", "/kyoto/events" >>
    [] s = TP -> << "/pia/events/music/", "/pia/events/classic/", "/pia/events/stage/",
                    "/pia/events/musical/", "/pia/events/rakugo/", "/pia/events/anime/" >>
    [] s = KB -> << "/theaters/", "/schedule/" >>
    [] s = TAB -> << "/en/events", "/events" >>
    [] s = NHK -> << "/concert/", "/en/concert/" >>
    [] s = BB -> << "/tokyo/schedule/", "/osaka/schedule/", "/yokohama/schedule/" >>
    [] s = PARCO -> << "/", "/event/" >>

\* origin that a relative link of page p is prefixed with
PageOrigin(s, p) ==
  IF s = PARCO /\ p = 2 THEN "https://shibuya.parco.jp" ELSE baseUrl(s)

\* href values: absent/empty, relative, absolute
NoLink == [abs |-> FALSE, origin |-> "", path |-> ""]

Links(s) ==
  { NoLink,
    [abs |-> FALSE, origin |-> "", path |-> "/e1"],
    [abs |-> FALSE, origin |-> "", path |-> "/e2"],
    [abs |-> TRUE, origin |-> baseUrl(s), path |-> "/e1"] }

\* the candidate blocks a page may hold: any title with any href, and a
\* well-formed block whose field extraction throws inside the callback's try
Blocks(s) ==
  { [title |-> t, link |-> l, throws |-> FALSE] : t \in Titles, l \in Links(s) }
    \cup { [title |-> <<"N", "o", "9">>,
            link |-> [abs |-> FALSE, origin |-> "", path |-> "/e1"],
            throws |-> TRUE] }

\* link.startsWith("http") ? link : `${origin}${link}`
ResolveUrl(s, p, link) ==
  IF link.abs THEN << link.origin, link.path >> ELSE << PageOrigin(s, p), link.path >>

\* the url a block without a link gets, where the extractor supplies one
DefaultUrl(s, p) ==
  CASE s = PARCO /\ p = 1 -> << baseUrl(s), "" >>
    [] s = PARCO /\ p = 2 -> << "https://shibuya.parco.jp", "/event/" >>
    [] OTHER -> << baseUrl(s), ListingPages(s)[p] >>

\* blocks without a link are skipped (!link return)
LinkRequired(s, p) ==
  \/ s \in {TC, JT, TP, TAB}
  \/ s = KB /\ p = 1

\* smallest accepted title length (1: only the empty title is rejected)
MinTitleLen(s, p) ==
  CASE s = TP -> 2
    [] s = BB -> 2
    [] s = PARCO -> 3
    [] s = NHK /\ p = 1 -> 3
    [] s = KB /\ p = 2 -> 3
    [] OTHER -> 1

\* a callback without the title check
TitleOk_Unchecked(s, p, title) == TRUE

\* if (!title || title.length < n) return
TitleOk(s, p, title) == Len(title) >= MinTitleLen(s, p)

\* String.match(/\d+/g) || []: the maximal digit runs of a title
DigitRuns(t) ==
  LET runs == { ij \in (1..Len(t)) \X (1..Len(t)) :
                  /\ ij[1] <= ij[2]
                  /\ \A k \in ij[1]..ij[2] : t[k] \in Digits
                  /\ (ij[1] = 1 \/ t[ij[1] - 1] \notin Digits)
                  /\ (ij[2] = Len(t) \/ t[ij[2] + 1] \notin Digits) }
  IN { SubSeq(t, ij[1], ij[2]) : ij \in runs }

\* jaNumbers.some((n) => enNumbers.includes(n))
titlesMatch(ja, en) == DigitRuns(ja) \cap DigitRuns(en) # {}

\* the characters /\s/ matches: space, tab, line feed, ideographic space
Whitespace == {" ", "tab", "lf", "zenspace"}

\* a classification that counts one half as enough
isEnglishText_AtLeastHalf(text) ==
  LET englishChars == { i \in 1..Len(text) : text[i] \in LowerLetters \cup UpperLetters }
      totalChars == Cardinality({ i \in 1..Len(text) : text[i] \notin Whitespace })
  IN totalChars > 0 /\ 2 * Cardinality(englishChars) >= totalChars

\* text.match(/[a-zA-Z]/g) || [], text.replace(/\s/g, "").length,
\* totalChars > 0 && englishChars.length / totalChars > 0.5
isEnglishText(text) ==
  LET englishChars == { i \in 1..Len(text) : text[i] \in LowerLetters \cup UpperLetters }
      totalChars == Cardinality({ i \in 1..Len(text) : text[i] \notin Whitespace })
  IN totalChars > 0 /\ 2 * Cardinality(englishChars) > totalChars

\* url.includes("/en/") in TokyoArtBeatScraper.scrape
isEnglish(s, p) == s = TAB /\ p = 1

\* the characters of the strings urls are made of
Characters(str) ==
  CASE str = "https://tokyocheapo.com" ->
         <<"h", "t", "t", "p", "s", ":", "/", "/", "t", "o", "k", "y", "o", "c", "h",
         "e", "a", "p", "o", ".", "c", "o", "m">>
    [] str = "https://en.japantravel.com" ->
         <<"h", "t", "t", "p", "s", ":", "/", "/", "e", "n", ".", "j", "a", "p", "a",
         "n", "t", "r", "a", "v", "e", "l", ".", "c", "o", "m">>
    [] str = "https://t.pia.jp" ->
         <<"h", "t", "t", "p", "s", ":", "/", "/", "t", ".", "p", "i", "a", ".", "j",
         "p">>
    [] str = "https://www.kabuki-bito.jp" ->
         <<"h", "t", "t", "p", "s", ":", "/", "/", "w", "w", "w", ".", "k", "a", "b",
         "u", "k", "i", "-", "b", "i", "t", "o", ".", "j", "p">>
    [] str = "https://www.tokyoartbeat.com" ->
         <<"h", "t", "t", "p", "s", ":", "/", "/", "w", "w", "w", ".", "t", "o", "k",
         "y", "o", "a", "r", "t", "b", "e", "a", "t", ".", "c", "o", "m">>
    [] str = "https://www.nhkso.or.jp" ->
         <<"h", "t", "t", "p", "s", ":", "/", "/", "w", "w", "w", ".", "n", "h", "k",
         "s", "o", ".", "o", "r", ".", "j", "p">>
    [] str = "https://www.billboard-live.com" ->
         <<"h", "t", "t", "p", "s", ":", "/", "/", "w", "w", "w", ".", "b", "i", "l",
         "l", "b", "o", "a", "r", "d", "-", "l", "i", "v", "e", ".", "c", "o", "m">>
    [] str = "https://art.parco.jp" ->
         <<"h", "t", "t", "p", "s", ":", "/", "/", "a", "r", "t", ".", "p", "a", "r",
         "c", "o", ".", "j", "p">>
    [] str = "https://shibuya.parco.jp" ->
         <<"h", "t", "t", "p", "s", ":", "/", "/", "s", "h", "i", "b", "u", "y", "a",
         ".", "p", "a", "r", "c", "o", ".", "j", "p">>
    [] str = "/events/" ->
         <<"/", "e", "v", "e", "n", "t", "s", "/">>
    [] str = "/calendar/" ->
         <<"/", "c", "a", "l", "e", "n", "d", "a", "r", "/">>
    [] str = "/events" ->
         <<"/", "e", "v", "e", "n", "t", "s">>
    [] str = "/tokyo/events" ->
         <<"/", "t", "o", "k", "y", "o", "/", "e", "v", "e", "n", "t", "s">>
    [] str = "/osaka/events" ->
         <<"/", "o", "s", "a", "k", "a", "/", "e", "v", "e", "n", "t", "s">>
    [] str = "/kyoto/events" ->
         <<"/", "k", "y", "o", "t", "o", "/", "e", "v", "e", "n", "t", "s">>
    [] str = "/pia/events/music/" ->
         <<"/", "p", "i", "a", "/", "e", "v", "e", "n", "t", "s", "/", "m", "u", "s",
         "i", "c", "/">>
    [] str = "/pia/events/classic/" ->
         <<"/", "p", "i", "a", "/", "e", "v", "e", "n", "t", "s", "/", "c", "l", "a",
         "s", "s", "i", "c", "/">>
    [] str = "/pia/events/stage/" ->
         <<"/", "p", "i", "a", "/", "e", "v", "e", "n", "t", "s", "/", "s", "t", "a",
         "g", "e", "/">>
    [] str = "/pia/events/musical/" ->
         <<"/", "p", "i", "a", "/", "e", "v", "e", "n", "t", "s", "/", "m", "u", "s",
         "i", "c", "a", "l", "/">>
    [] str = "/pia/events/rakugo/" ->
         <<"/", "p", "i", "a", "/", "e", "v", "e", "n", "t", "s", "/", "r", "a", "k",
         "u", "g", "o", "/">>
    [] str = "/pia/events/anime/" ->
         <<"/", "p", "i", "a", "/", "e", "v", "e", "n", "t", "s", "/", "a", "n", "i",
         "m", "e", "/">>
    [] str = "/theaters/" ->
         <<"/", "t", "h", "e", "a", "t", "e", "r", "s", "/">>
    [] str = "/schedule/" ->
         <<"/", "s", "c", "h", "e", "d", "u", "l", "e", "/">>
    [] str = "/en/events" ->
         <<"/", "e", "n", "/", "e", "v", "e", "n", "t", "s">>
    [] str = "/concert/" ->
         <<"/", "c", "o", "n", "c", "e", "r", "t", "/">>
    [] str = "/en/concert/" ->
         <<"/", "e", "n", "/", "c", "o", "n", "c", "e", "r", "t", "/">>
    [] str = "/tokyo/schedule/" ->
         <<"/", "t", "o", "k", "y", "o", "/", "s", "c", "h", "e", "d", "u", "l", "e",
         "/">>
    [] str = "/osaka/schedule/" ->
         <<"/", "o", "s", "a", "k", "a", "/", "s", "c", "h", "e", "d", "u", "l", "e",
         "/">>
    [] str = "/yokohama/schedule/" ->
         <<"/", "y", "o", "k", "o", "h", "a", "m", "a", "/", "s", "c", "h", "e", "d",
         "u", "l", "e", "/">>
    [] str = "/" ->
         <<"/">>
    [] str = "/event/" ->
         <<"/", "e", "v", "e", "n", "t", "/">>
    [] str = "/e1" ->
         <<"/", "e", "1">>
    [] str = "/e2" ->
         <<"/", "e", "2">>
    [] str = "" -> <<>>

\* String.prototype.charCodeAt(0) of a character of a url or a title
charCodeAt(c) ==
  CASE c \in Digits -> 48 + DigitValue(c)
    [] c \in LowerLetters -> 96 + (CHOOSE i \in 1..26 : LowerSeq[i] = c)
    [] c \in UpperLetters -> 64 + (CHOOSE i \in 1..26 : UpperSeq[i] = c)
    [] c = "-" -> 45
    [] c = "." -> 46
    [] c = "/" -> 47
    [] c = ":" -> 58
    [] c = "bi" -> 32654
    [] c = "jutsu" -> 34899
    [] c = "ten" -> 23637

\* A 32-bit integer is kept as << high 16 bits, low 16 bits >> of its two's
\* complement.  One step of the reduce: ((acc << 5) - acc + code) | 0
HashStep(acc, code) ==
  LET lo == 31 * acc[2] + code
      hi == 31 * acc[1] + (lo \div 65536)
  IN << hi % 65536, lo % 65536 >>

\* unique.split("").reduce(..., acc) over the characters from position k on
RECURSIVE HashFrom(_, _, _)
HashFrom(acc, chars, k) ==
  IF k > Len(chars) \/ acc[1] < 0 THEN acc
  ELSE HashFrom(HashStep(acc, charCodeAt(chars[k])), chars, k + 1)

\* Math.abs of a 32-bit integer (2^31 for -2^31)
MathAbs(h) ==
  IF h[1] < 32768 THEN h
  ELSE << (65535 - h[1] + (IF h[2] = 0 THEN 1 ELSE 0)) % 65536, (65536 - h[2]) % 65536 >>

\* the origins and paths of the urls a run can resolve
UrlOrigins == { baseUrl(s) : s \in ScraperClasses } \cup { "https://shibuya.parco.jp" }

UrlPaths ==
  UNION { { ListingPages(s)[p] : p \in 1..Len(ListingPages(s)) } : s \in ScraperClasses }
    \cup { "", "/e1", "/e2" }

\* the hash of each url, computed once
UrlHash ==
  [ u \in UrlOrigins \X UrlPaths |->
      HashFrom(<<0, 0>>, Characters(u[1]) \o Characters(u[2]), 1) ]

\* generateId(prefix, unique): the prefix and the hashed string
IdPrefix(s, p) ==
  CASE s = TC -> "tc"
    [] s = JT -> "jt"
    [] s = TP -> "pia"
    [] s = KB -> "kabuki"
    [] s = TAB -> "tab"
    [] s = NHK -> "nhkso"
    [] s = BB -> "billboard"
    [] s = PARCO /\ p = 1 -> "parco"
    [] s = PARCO /\ p = 2 -> "parco-shibuya"

\* the hashed string is fullUrl, or fullUrl + title
IdUsesTitle(s, p) == s = NHK \/ (s = KB /\ p = 2)

\* BaseScraper.generateId(prefix, unique), unique being url + suffix:
\* `${prefix}-${Math.abs(hash).toString(36)}`, kept as the prefix and the number
generateId(prefix, url, suffix) ==
  [prefix |-> prefix, hash |-> MathAbs(HashFrom(UrlHash[url], suffix, 1))]

\* title_en of a newly pushed event
NewTitleEn(s, p, title) ==
  CASE s \in {TC, JT} -> title
    [] s = TAB -> IF isEnglish(s, p) THEN title ELSE Null
    [] s = BB -> IF isEnglishText(title) THEN title ELSE Null
    [] OTHER -> Null

\* the object literal passed to events.push
NewEvent(s, p, url, title) ==
  [ id |-> generateId(IdPrefix(s, p), url, IF IdUsesTitle(s, p) THEN title ELSE <<>>),
    title_ja |-> title,
    title_en |-> NewTitleEn(s, p, title),
    source_url |-> url,
    source_name |-> s ]

\* a duplicate test that looks at url or title on every page
IsDuplicate_UrlOrTitle(s, p, evs, url, title) ==
  \E i \in 1..Len(evs) :
     evs[i].source_url = url \/ evs[i].title_ja = title \/ evs[i].title_en = title

\* the "skip duplicates" test of each block callback
IsDuplicate(s, p, evs, url, title) ==
  CASE s \in {TC, JT, KB} /\ p = 1 -> FALSE
    [] s = KB /\ p = 2 -> \E i \in 1..Len(evs) : evs[i].title_ja = title
    [] s = NHK -> \E i \in 1..Len(evs) : evs[i].source_url = url /\ evs[i].title_ja = title
    [] s = PARCO /\ p = 2 ->
         \E i \in 1..Len(evs) : evs[i].source_url = url \/ evs[i].title_ja = title
    [] s = TAB ->
         \E i \in 1..Len(evs) :
            evs[i].source_url = url \/ evs[i].title_ja = title \/ evs[i].title_en = title
    [] OTHER -> \E i \in 1..Len(evs) : evs[i].source_url = url

\* events.find(...) of the two back-fill sites: index of the first match, 0 if none
FindExisting(s, evs, url, title) ==
  LET hit(i) == IF s = NHK
                THEN evs[i].source_url = url \/ titlesMatch(evs[i].title_ja, title)
                ELSE evs[i].source_url = url
      hits == { i \in 1..Len(evs) : hit(i) }
  IN IF hits = {} THEN 0 ELSE CHOOSE i \in hits : \A j \in hits : i <= j

\* a back-fill without the !existing.title_en test
BackfillTitleEn_Overwrite(s, evs, url, title) ==
  LET k == FindExisting(s, evs, url, title)
  IN IF k # 0 THEN [evs EXCEPT ![k].title_en = title] ELSE evs

\* if (existing && !existing.title_en) existing.title_en = title
BackfillTitleEn(s, evs, url, title) ==
  LET k == FindExisting(s, evs, url, title)
  IN IF k # 0 /\ evs[k].title_en = Null
     THEN [evs EXCEPT ![k].title_en = title]
     ELSE evs

\* one invocation of the .each() callback of page p on a candidate block
ProcessBlock(s, p, evs, title, link, throws) ==
  IF throws THEN evs
  ELSE IF ~TitleOk(s, p, title) THEN evs
  ELSE IF link = NoLink /\ LinkRequired(s, p) THEN evs
  ELSE LET url == IF link = NoLink THEN DefaultUrl(s, p) ELSE ResolveUrl(s, p, link)
       IN CASE s = NHK /\ p = 2 -> BackfillTitleEn(s, evs, url, title)
            [] s = TAB ->
                 IF IsDuplicate(s, p, evs, url, title)
                 THEN IF isEnglish(s, p) THEN BackfillTitleEn(s, evs, url, title) ELSE evs
                 ELSE Append(evs, NewEvent(s, p, url, title))
            [] OTHER ->
                 IF IsDuplicate(s, p, evs, url, title)
                 THEN evs
                 ELSE Append(evs, NewEvent(s, p, url, title))

\* where control goes when this.fetch(page p) throws:
\* "throw" leaves scrape(), "return" skips the remaining pages, "next" goes on
OnFetchFail(s, p) ==
  CASE s \in {TC, JT} /\ p = 1 -> "throw"
    [] s \in {NHK, PARCO} /\ p = 1 -> "return"
    [] OTHER -> "next"

\* a run() whose catch drops the error
RunResult_Swallow(s, evs, threw) ==
  [source |-> s, events |-> IF threw THEN <<>> ELSE evs, errors |-> <<>>]

\* BaseScraper.run(): the ScraperResult built from scrape()'s outcome
RunResult(s, evs, threw) ==
  [ source |-> s,
    events |-> IF threw THEN <<>> ELSE evs,
    errors |-> IF threw THEN << <<"HTTP error", s>> >> ELSE <<>> ]

(* --------------------------- orchestrator ----------------------------- *)

\* s.name.toLowerCase().replace(/\s+/g, "-")
ScraperKey(s) ==
  CASE s = TC -> "tokyo-cheapo"
    [] s = JT -> "japan-travel"
    [] s = TP -> "ticket-pia"
    [] s = KB -> "kabuki-bito"
    [] s = TAB -> "tokyo-art-beat"
    [] s = NHK -> "nhk-symphony"
    [] s = BB -> "billboard-live"
    [] s = PARCO -> "parco"

\* source keys a caller may pass
RequestKeys == {"ticket-pia", "Ticket-Pia", "japan-travel", "tokyo-art-beat",
                "nhk-symphony", "no-such-source"}

\* scraperName.toLowerCase() on the request keys
toLowerCase(k) == IF k = "Ticket-Pia" THEN "ticket-pia" ELSE k

\* options.sources values a caller may pass
SourceLists == { <<"ticket-pia">>, <<"no-such-source">>, <<"Ticket-Pia">>,
                 <<"tokyo-art-beat", "no-such-source", "japan-travel">>,
                 <<"nhk-symphony", "kabuki-bito">> }

SeqRange(q) == { q[i] : i \in 1..Len(q) }

\* Array.prototype.filter
RECURSIVE Filter(_, _)
Filter(q, keep) ==
  IF q = <<>> THEN <<>>
  ELSE IF Head(q) \in keep THEN <<Head(q)>> \o Filter(Tail(q), keep)
  ELSE Filter(Tail(q), keep)

\* a selection that falls back to the whole registry when nothing matches
scrapersToRun_Fallback(hasSources, sources) ==
  LET sel == Filter(scrapers,
                    { s \in SeqRange(scrapers) : ScraperKey(s) \in SeqRange(sources) })
  IN IF hasSources /\ sel # <<>> THEN sel ELSE scrapers

\* sources ? scrapers.filter((s) => sources.includes(key(s))) : scrapers
scrapersToRun(hasSources, sources) ==
  IF hasSources
  THEN Filter(scrapers, { s \in SeqRange(scrapers) : ScraperKey(s) \in SeqRange(sources) })
  ELSE scrapers

\* scrapers.find((s) => key(s) === scraperName.toLowerCase()); "" if none
FindScraper(scraperName) ==
  LET hits == { i \in 1..Len(scrapers) : ScraperKey(scrapers[i]) = toLowerCase(scraperName) }
  IN IF hits = {} THEN "" ELSE scrapers[CHOOSE i \in hits : \A j \in hits : i <= j]

(* ------------------------------- text --------------------------------- *)

\* A text is a sequence of characters.  Characters outside ASCII are written
\* by name: "nen" "gatsu" "nichi" are the kanji of year, month (also Monday)
\* and day (also Sunday); "ka" "sui" "moku" "kin" "do" the other weekdays;
\* "nami" is the wave dash, "zennami" the full-width tilde, "endash" the en
\* dash; "zen(" and "zen)" the full-width parentheses; "yen" and "zenyen" the
\* yen signs, "en" the kanji of yen.

\* \w
WordChars == LowerLetters \cup UpperLetters \cup Digits \cup {"_"}

\* \s
SpaceChars == {" "}

DigitChar(n) == CHOOSE c \in Digits : DigitValue(c) = n

\* parseInt(s, 10) of a digit run
RECURSIVE parseInt(_)
parseInt(s) ==
  IF s = <<>> THEN 0 ELSE 10 * parseInt(SubSeq(s, 1, Len(s) - 1)) + DigitValue(s[Len(s)])

\* String(n) of a non-negative integer
RECURSIVE NumberToString(_)
NumberToString(n) ==
  IF n < 10 THEN << DigitChar(n) >>
  ELSE Append(NumberToString(n \div 10), DigitChar(n % 10))

\* s.padStart(2, "0")
padStart2(s) ==
  CASE Len(s) = 0 -> <<"0", "0">>
    [] Len(s) = 1 -> <<"0">> \o s
    [] OTHER -> s

\* `${year}-${month.padStart(2, "0")}-${day.padStart(2, "0")}`
DateString(year, month, day) ==
  year \o <<"-">> \o padStart2(month) \o <<"-">> \o padStart2(day)

\* a capture group that did not take part in the match
Undefined == <<"undefined">>

\* One element of a regular expression: a character class repeated min..max
\* times (greedy), capturing into group grp (0: no capture).
Rx(cls, min, max, grp) == [cls |-> cls, min |-> min, max |-> max, grp |-> grp, skip |-> 0]

\* (?: ... )? around the next n elements
Opt(n) == [cls |-> {}, min |-> 0, max |-> 0, grp |-> 0, skip |-> n]

\* longest repetition the + and * quantifiers of the patterns take
RxMany == 12

NoMatch == [ok |-> FALSE, caps |-> <<>>, start |-> 0, end |-> 0]

\* number of characters of t from position i on that lie in cls, up to max
RECURSIVE RunLength(_, _, _, _)
RunLength(t, i, cls, max) ==
  IF max = 0 \/ i > Len(t) \/ t[i] \notin cls THEN 0
  ELSE 1 + RunLength(t, i + 1, cls, max - 1)

\* backtracking match of pat[k..] at position i of t: an optional group is
\* entered first and skipped if the rest fails; the greedy quantifier of
\* element k tries n repetitions, then n - 1, ... down to its minimum
RECURSIVE MatchFrom(_, _, _, _, _)
RECURSIVE TryCount(_, _, _, _, _, _)
MatchFrom(pat, k, t, i, caps) ==
  IF k > Len(pat) THEN [ok |-> TRUE, caps |-> caps, start |-> 0, end |-> i]
  ELSE IF pat[k].skip > 0
  THEN LET r == MatchFrom(pat, k + 1, t, i, caps)
       IN IF r.ok THEN r ELSE MatchFrom(pat, k + 1 + pat[k].skip, t, i, caps)
  ELSE TryCount(pat, k, t, i, caps, RunLength(t, i, pat[k].cls, pat[k].max))

TryCount(pat, k, t, i, caps, n) ==
  IF n < pat[k].min THEN NoMatch
  ELSE LET caps2 == IF pat[k].grp = 0 \/ n = 0 THEN caps
                    ELSE [caps EXCEPT ![pat[k].grp] = SubSeq(t, i, i + n - 1)]
           r == MatchFrom(pat, k + 1, t, i + n, caps2)
       IN IF r.ok THEN r ELSE TryCount(pat, k, t, i, caps, n - 1)

\* String.prototype.match without the g flag: the leftmost match
RECURSIVE MatchSearch(_, _, _, _)
MatchSearch(pat, t, i, groups) ==
  IF i > Len(t) + 1 THEN NoMatch
  ELSE LET r == MatchFrom(pat, 1, t, i, [g \in 1..groups |-> Undefined])
       IN IF r.ok THEN [r EXCEPT !.start = i] ELSE MatchSearch(pat, t, i + 1, groups)

match(t, pat, groups) == MatchSearch(pat, t, 1, groups)

\* the matched substring, match[0]
Matched(t, r) == SubSeq(t, r.start, r.end - 1)

(* ------------------------------- state -------------------------------- *)

VARIABLES
  call,         \* the top-level invocation and its arguments
  pc,           \* position of the top-level invocation
  queue,        \* runAllScrapers: scrapersToRun
  idx,          \* runAllScrapers: index of the for-loop over scrapersToRun
  results,      \* the ScraperResult list (runAllScrapers) / the result (runScraper, run)
  totalEvents,  \* runAllScrapers: totalEvents
  totalErrors,  \* runAllScrapers: totalErrors
  saveIdx,      \* index of the for-loop over result.events
  upsertLog,    \* every upsertEvent call so far: the event id and whether it threw
  cur,          \* the extractor whose run() is executing, "" if none
  page,         \* scrape(): index of the listing page
  spc,          \* scrape(): "fetch", "blocks", "returned", "thrown"; "idle" outside
  events,       \* scrape(): the in-run events list
  blocksLeft,   \* candidate blocks the pages may still supply
  failed,       \* number of this.fetch() calls that threw in the current run()
  started,      \* the extractors whose run() has been called, in call order
  active,       \* the extractors whose run() has been called and has not returned
  delays,       \* runAllScrapers: inter-source delays that have elapsed
  now,          \* the clock a normalizer reads: year, month, and the run date
  text,         \* the texts of a candidate block handed to the normalizers
  out,          \* what a normalizer or a callback made of them
  listing,      \* re-scraping: the extractor and the candidate blocks of its pages
  store,        \* re-scraping: the rows of the events table
  runs,         \* re-scraping: the ids each completed run emitted
  seen,         \* Ticket Pia: the blocks the callback has run on, in order
  env,          \* process.env: the keys and secrets that are configured
  translationCache, \* translate: the in-memory Map of translations
  tcalls,       \* translate: the calls of translateJapaneseToEnglish, each with its position
  requests,     \* translate: every provider request issued so far
  req,          \* api: the request being handled and the handler's position
  home,         \* main page: the state of the Home component
  inflight,     \* main page: the /api/events requests not yet completed
  lastIssued    \* main page: the most recently issued /api/events request

\* the state of a top-level call of the orchestrator or of run()
runVars == << call, pc, queue, idx, results, totalEvents, totalErrors, saveIdx, upsertLog,
              cur, page, spc, events, blocksLeft, failed, started, active, delays >>

\* the state of a call of a field normalizer
fieldVars == << now, text, out >>

\* the state of repeated persisted runs over the same pages
storeVars == << listing, store, runs >>

\* the state of Ticket Pia's scrape(), of the translation module, of the
\* scrape routes and of the main page
moreVars == << seen, env, translationCache, tcalls, requests, req, home, inflight, lastIssued >>

vars == << runVars, fieldVars, storeVars, moreVars >>

orchVars == << call, pc, queue, idx, results, totalEvents, totalErrors, saveIdx,
               upsertLog, started, active, delays >>

NoCall == [kind |-> "none", hasSources |-> FALSE, sources |-> <<>>, saveToDb |-> FALSE,
           key |-> ""]

(* -------------------------- date normalizers -------------------------- *)

\* now.getFullYear(), as text
currentYear == NumberToString(now.year)

\* new Date().toISOString().split("T")[0]: the run date
Today == now.today

\* a year inference that never rolls over
InferYear_Never(month) == currentYear

\* parseInt(month) < now.getMonth() + 1 ? year + 1 : year
InferYear(month) ==
  IF parseInt(month) < now.month THEN NumberToString(now.year + 1) ELSE currentYear

Nen == {"nen"}
Gatsu == {"gatsu"}
Nichi == {"nichi"}

\* /(\d{4})年(\d{1,2})月(\d{1,2})日/
RxFullJa == << Rx(Digits, 4, 4, 1), Rx(Nen, 1, 1, 0), Rx(Digits, 1, 2, 2), Rx(Gatsu, 1, 1, 0),
               Rx(Digits, 1, 2, 3), Rx(Nichi, 1, 1, 0) >>

\* /(\d{1,2})月(\d{1,2})日/
RxShortJa == << Rx(Digits, 1, 2, 1), Rx(Gatsu, 1, 1, 0), Rx(Digits, 1, 2, 2),
                Rx(Nichi, 1, 1, 0) >>

\* /(\d{1,2})\/(\d{1,2})/
RxSlash == << Rx(Digits, 1, 2, 1), Rx({"/"}, 1, 1, 0), Rx(Digits, 1, 2, 2) >>

\* /(\d{4})[.\/](\d{1,2})[.\/](\d{1,2})/
RxFullDot == << Rx(Digits, 4, 4, 1), Rx({".", "/"}, 1, 1, 0), Rx(Digits, 1, 2, 2),
                Rx({".", "/"}, 1, 1, 0), Rx(Digits, 1, 2, 3) >>

\* /(\d{1,2})[.\/](\d{1,2})/
RxShortDot == << Rx(Digits, 1, 2, 1), Rx({".", "/"}, 1, 1, 0), Rx(Digits, 1, 2, 2) >>

\* TicketPiaScraper.parseJapaneseDate
TicketPia_parseJapaneseDate(dateStr) ==
  LET fullMatch == match(dateStr, RxFullJa, 3)
      shortMatch == match(dateStr, RxSlash, 2)
  IN IF dateStr = <<>> THEN Null
     ELSE IF fullMatch.ok
     THEN DateString(fullMatch.caps[1], fullMatch.caps[2], fullMatch.caps[3])
     ELSE IF shortMatch.ok
     THEN DateString(InferYear(shortMatch.caps[1]), shortMatch.caps[1], shortMatch.caps[2])
     ELSE Null

\* BillboardLiveScraper.parseDateStr
parseDateStr(dateStr) ==
  LET fullMatch == match(dateStr, RxFullDot, 3)
      shortMatch == match(dateStr, RxShortDot, 2)
      jpMatch == match(dateStr, RxShortJa, 2)
  IN IF dateStr = <<>> THEN Null
     ELSE IF fullMatch.ok
     THEN DateString(fullMatch.caps[1], fullMatch.caps[2], fullMatch.caps[3])
     ELSE IF shortMatch.ok
     THEN DateString(InferYear(shortMatch.caps[1]), shortMatch.caps[1], shortMatch.caps[2])
     ELSE IF jpMatch.ok
     THEN DateString(InferYear(jpMatch.caps[1]), jpMatch.caps[1], jpMatch.caps[2])
     ELSE Null

\* NHKSymphonyScraper.parseJapaneseDate
NHK_parseJapaneseDate(dateStr) ==
  LET fullMatch == match(dateStr, RxFullJa, 3)
      shortMatch == match(dateStr, RxShortJa, 2)
  IN IF dateStr = <<>> THEN Null
     ELSE IF fullMatch.ok
     THEN DateString(fullMatch.caps[1], fullMatch.caps[2], fullMatch.caps[3])
     ELSE IF shortMatch.ok
     THEN DateString(InferYear(shortMatch.caps[1]), shortMatch.caps[1], shortMatch.caps[2])
     ELSE Null

\* [〜～\-]
KabukiDash == {"nami", "zennami", "-"}

\* a same-month pattern without the day sign after the end day
RxKabukiRange_Loose == << Rx(Digits, 1, 2, 1), Rx(Gatsu, 1, 1, 0), Rx(Digits, 1, 2, 2),
                          Rx(Nichi, 1, 1, 0), Rx(KabukiDash, 1, 1, 0), Rx(Digits, 1, 2, 3) >>

\* /(\d{1,2})月(\d{1,2})日[〜～\-](\d{1,2})日/
RxKabukiRange == << Rx(Digits, 1, 2, 1), Rx(Gatsu, 1, 1, 0), Rx(Digits, 1, 2, 2),
                    Rx(Nichi, 1, 1, 0), Rx(KabukiDash, 1, 1, 0), Rx(Digits, 1, 2, 3),
                    Rx(Nichi, 1, 1, 0) >>

\* /(\d{1,2})月(\d{1,2})日[〜～\-](\d{1,2})月(\d{1,2})日/
RxKabukiFullRange == << Rx(Digits, 1, 2, 1), Rx(Gatsu, 1, 1, 0), Rx(Digits, 1, 2, 2),
                        Rx(Nichi, 1, 1, 0), Rx(KabukiDash, 1, 1, 0), Rx(Digits, 1, 2, 3),
                        Rx(Gatsu, 1, 1, 0), Rx(Digits, 1, 2, 4), Rx(Nichi, 1, 1, 0) >>

\* KabukiBitoScraper.parseKabukiDateRange
parseKabukiDateRange(dateStr) ==
  LET rangeMatch == match(dateStr, RxKabukiRange, 3)
      fullRangeMatch == match(dateStr, RxKabukiFullRange, 4)
      singleMatch == match(dateStr, RxShortJa, 2)
  IN IF rangeMatch.ok
     THEN [ start |-> DateString(currentYear, rangeMatch.caps[1], rangeMatch.caps[2]),
            end |-> DateString(currentYear, rangeMatch.caps[1], rangeMatch.caps[3]) ]
     ELSE IF fullRangeMatch.ok
     THEN LET startMonth == fullRangeMatch.caps[1]
              endMonth == fullRangeMatch.caps[3]
              endYear == IF parseInt(endMonth) < parseInt(startMonth)
                         THEN NumberToString(now.year + 1) ELSE currentYear
          IN [ start |-> DateString(currentYear, startMonth, fullRangeMatch.caps[2]),
               end |-> DateString(endYear, endMonth, fullRangeMatch.caps[4]) ]
     ELSE IF singleMatch.ok
     THEN [ start |-> DateString(currentYear, singleMatch.caps[1], singleMatch.caps[2]),
            end |-> Null ]
     ELSE [ start |-> Today, end |-> Null ]

\* /(\w+)\s+(\d{1,2})(?:,?\s+\d{4})?\s*[-–]\s*(\w+)\s+(\d{1,2})(?:,?\s+(\d{4}))?/i
RxEnRange == << Rx(WordChars, 1, RxMany, 1), Rx(SpaceChars, 1, RxMany, 0), Rx(Digits, 1, 2, 2),
                Opt(3), Rx({","}, 0, 1, 0), Rx(SpaceChars, 1, RxMany, 0), Rx(Digits, 4, 4, 0),
                Rx(SpaceChars, 0, RxMany, 0), Rx({"-", "endash"}, 1, 1, 0),
                Rx(SpaceChars, 0, RxMany, 0),
                Rx(WordChars, 1, RxMany, 3), Rx(SpaceChars, 1, RxMany, 0), Rx(Digits, 1, 2, 4),
                Opt(3), Rx({","}, 0, 1, 0), Rx(SpaceChars, 1, RxMany, 0), Rx(Digits, 4, 4, 5) >>

\* [〜～\-–]
WideDash == {"nami", "zennami", "-", "endash"}

\* /(\d{4})年(\d{1,2})月(\d{1,2})日[〜～\-–](?:(\d{4})年)?(\d{1,2})月(\d{1,2})日/
RxJpRange == << Rx(Digits, 4, 4, 1), Rx(Nen, 1, 1, 0), Rx(Digits, 1, 2, 2), Rx(Gatsu, 1, 1, 0),
                Rx(Digits, 1, 2, 3), Rx(Nichi, 1, 1, 0), Rx(WideDash, 1, 1, 0),
                Opt(2), Rx(Digits, 4, 4, 4), Rx(Nen, 1, 1, 0),
                Rx(Digits, 1, 2, 5), Rx(Gatsu, 1, 1, 0), Rx(Digits, 1, 2, 6),
                Rx(Nichi, 1, 1, 0) >>

\* /(\w+)\s+(\d{1,2}),?\s+(\d{4})/i
RxEnSingle == << Rx(WordChars, 1, RxMany, 1), Rx(SpaceChars, 1, RxMany, 0), Rx(Digits, 1, 2, 2),
                 Rx({","}, 0, 1, 0), Rx(SpaceChars, 1, RxMany, 0), Rx(Digits, 4, 4, 3) >>

\* the month a word names to the Date parser (first three letters, any case); 0 if none
MonthOfWord(w) ==
  LET lower(c) == CASE c = "J" -> "j" [] c = "F" -> "f" [] c = "M" -> "m" [] c = "A" -> "a"
                    [] c = "S" -> "s" [] c = "O" -> "o" [] c = "N" -> "n" [] c = "D" -> "d"
                    [] OTHER -> c
      abbr == IF Len(w) >= 3 THEN << lower(w[1]), lower(w[2]), lower(w[3]) >> ELSE <<>>
      full == [i \in 1..Len(w) |-> lower(w[i])]
      names == << <<"j","a","n","u","a","r","y">>, <<"f","e","b","r","u","a","r","y">>,
                  <<"m","a","r","c","h">>, <<"a","p","r","i","l">>, <<"m","a","y">>,
                  <<"j","u","n","e">>, <<"j","u","l","y">>, <<"a","u","g","u","s","t">>,
                  <<"s","e","p","t","e","m","b","e","r">>, <<"o","c","t","o","b","e","r">>,
                  <<"n","o","v","e","m","b","e","r">>, <<"d","e","c","e","m","b","e","r">> >>
      hits == { m \in 1..12 : full = names[m] \/ (Len(w) = 3 /\ abbr = SubSeq(names[m], 1, 3)) }
  IN IF hits = {} THEN 0 ELSE CHOOSE m \in hits : TRUE

DaysInMonth(y, m) ==
  CASE m \in {4, 6, 9, 11} -> 30
    [] m = 2 -> IF (y % 4 = 0 /\ y % 100 # 0) \/ y % 400 = 0 THEN 29 ELSE 28
    [] OTHER -> 31

\* Date.prototype.toISOString().split("T")[0] of local midnight of y-m-d: the
\* same day, or the day before where local time is ahead of UTC
LocalMidnightIso(y, m, d) ==
  LET iso(yy, mm, dd) == DateString(NumberToString(yy), NumberToString(mm), NumberToString(dd))
  IN IF ~now.aheadOfUtc THEN iso(y, m, d)
     ELSE IF d > 1 THEN iso(y, m, d - 1)
     ELSE IF m > 1 THEN iso(y, m - 1, DaysInMonth(y, m - 1))
     ELSE iso(y - 1, 12, 31)

\* /^(\d{4})-(\d{2})-(\d{2})$/: the ISO date-only form of ECMAScript
RxIsoDate == << Rx(Digits, 4, 4, 1), Rx({"-"}, 1, 1, 0), Rx(Digits, 2, 2, 2), Rx({"-"}, 1, 1, 0),
                Rx(Digits, 2, 2, 3) >>

\* a date the engine's fallback parser may make of a text ECMAScript leaves to it
LegacyDate == <<"2", "0", "0", "1", "-", "0", "1", "-", "0", "1">>

\* new Date(str) followed by toISOString().split("T")[0], Null for an Invalid
\* Date: the set of results an engine may give.  The ISO form and
\* "Month D, YYYY" are decided; any other text with a digit is left to the
\* engine's fallback parser, which may reject it or make some date of it.
DateOutcomes(str) ==
  LET iso == match(str, RxIsoDate, 3)
      en == match(str, RxEnSingle, 3)
      whole(r) == r.ok /\ r.start = 1 /\ r.end = Len(str) + 1
      valid(y, m, d) == m \in 1..12 /\ d \in 1..DaysInMonth(y, m)
  IN IF \A i \in 1..Len(str) : str[i] \notin Digits THEN {Null}
     ELSE IF whole(iso) /\ valid(parseInt(iso.caps[1]), parseInt(iso.caps[2]), parseInt(iso.caps[3]))
     THEN {str}
     ELSE IF whole(en) /\ valid(parseInt(en.caps[3]), MonthOfWord(en.caps[1]), parseInt(en.caps[2]))
     THEN { LocalMidnightIso(parseInt(en.caps[3]), MonthOfWord(en.caps[1]), parseInt(en.caps[2])) }
     ELSE {Null, LegacyDate}

\* BaseScraper.parseDate: the results it may return
parseDate(dateStr) == DateOutcomes(dateStr)

\* TokyoArtBeatScraper.parseExhibitionDates: the results it may return
parseExhibitionDates(dateStr) ==
  LET enRangeMatch == match(dateStr, RxEnRange, 5)
      jpRangeMatch == match(dateStr, RxJpRange, 6)
      jpSingle == match(dateStr, RxFullJa, 3)
      enSingle == match(dateStr, RxEnSingle, 3)
      fallback == [start |-> Today, end |-> Null]
      year == IF enRangeMatch.caps[5] = Undefined THEN currentYear ELSE enRangeMatch.caps[5]
      dateText(month, day) == month \o <<" ">> \o day \o <<",", " ">> \o year
      afterEnRange ==
        IF jpRangeMatch.ok
        THEN LET c == jpRangeMatch.caps
             IN { [ start |-> DateString(c[1], c[2], c[3]),
                    end |-> DateString(IF c[4] = Undefined THEN c[1] ELSE c[4], c[5], c[6]) ] }
        ELSE IF jpSingle.ok
        THEN { [ start |-> DateString(jpSingle.caps[1], jpSingle.caps[2], jpSingle.caps[3]),
                 end |-> Null ] }
        ELSE IF enSingle.ok
        THEN { IF date = Null THEN fallback ELSE [start |-> date, end |-> Null] :
                 date \in DateOutcomes(SubSeq(dateStr, enSingle.start, enSingle.end - 1)) }
        ELSE { fallback }
  IN IF enRangeMatch.ok
     THEN UNION { IF startDate # Null /\ endDate # Null
                  THEN { [start |-> startDate, end |-> endDate] }
                  ELSE afterEnRange :
                    startDate \in DateOutcomes(dateText(enRangeMatch.caps[1], enRangeMatch.caps[2])),
                    endDate \in DateOutcomes(dateText(enRangeMatch.caps[3], enRangeMatch.caps[4])) }
     ELSE afterEnRange

\* [月火水木金土日]
Weekdays == {"gatsu", "ka", "sui", "moku", "kin", "do", "nichi"}

\* /(\d{4})?[年.]?(\d{1,2})[月.](\d{1,2})日?[（(]?[月火水木金土日]?[）)]?[〜～\-–](\d{1,2})?[月.]?(\d{1,2})日?/
RxParcoRange == << Opt(1), Rx(Digits, 4, 4, 1), Rx({"nen", "."}, 0, 1, 0), Rx(Digits, 1, 2, 2),
                   Rx({"gatsu", "."}, 1, 1, 0), Rx(Digits, 1, 2, 3), Rx(Nichi, 0, 1, 0),
                   Rx({"zen(", "("}, 0, 1, 0), Rx(Weekdays, 0, 1, 0), Rx({"zen)", ")"}, 0, 1, 0),
                   Rx(WideDash, 1, 1, 0), Opt(1), Rx(Digits, 1, 2, 4),
                   Rx({"gatsu", "."}, 0, 1, 0), Rx(Digits, 1, 2, 5), Rx(Nichi, 0, 1, 0) >>

\* /(\d{4})?[年.]?(\d{1,2})[月.](\d{1,2})/
RxParcoSingle == << Opt(1), Rx(Digits, 4, 4, 1), Rx({"nen", "."}, 0, 1, 0), Rx(Digits, 1, 2, 2),
                    Rx({"gatsu", "."}, 1, 1, 0), Rx(Digits, 1, 2, 3) >>

\* ParcoScraper.parseDateRange: throws is TRUE when the call ends in a TypeError
\* (padStart read on a capture group that is undefined)
parseDateRange(dateStr) ==
  LET rangeMatch == match(dateStr, RxParcoRange, 5)
      singleMatch == match(dateStr, RxParcoSingle, 3)
      startYear(year) == IF year # Undefined THEN NumberToString(parseInt(year)) ELSE currentYear
      returns(start, end) == [throws |-> FALSE, start |-> start, end |-> end]
  IN IF rangeMatch.ok
     THEN LET year == rangeMatch.caps[1]
              startMonth == rangeMatch.caps[2]
              startDay == rangeMatch.caps[3]
              endMonthOrDay == rangeMatch.caps[4]
              endDay == rangeMatch.caps[5]
              endMonth == IF endDay # Undefined THEN endMonthOrDay ELSE startMonth
              actualEndDay == IF endDay # Undefined THEN endDay ELSE endMonthOrDay
          IN IF actualEndDay # Undefined /\ endMonth = Undefined
             THEN [throws |-> TRUE, start |-> Null, end |-> Null]
             ELSE returns(DateString(startYear(year), startMonth, startDay),
                          IF actualEndDay # Undefined
                          THEN DateString(startYear(year), endMonth, actualEndDay)
                          ELSE Null)
     ELSE IF singleMatch.ok
     THEN returns(DateString(startYear(singleMatch.caps[1]), singleMatch.caps[2],
                             singleMatch.caps[3]), Null)
     ELSE returns(Today, Null)

(* -------------------------- price normalizers ------------------------- *)

\* price_min / price_max: number | null.  A price is <<n>>, null is <<>>.
NullPrice == <<>>

Price(n) == <<n>>

\* str.replace(/[...]/g, "")
RemoveChars(str, chars) == SelectSeq(str, LAMBDA c : c \notin chars)

\* /(\d+)/
RxNumber == << Rx(Digits, 1, RxMany, 1) >>

\* str.match(/\d+/g): the digit runs from position i on, left to right (<<>> for null)
RECURSIVE MatchAllNumbers(_, _)
MatchAllNumbers(str, i) ==
  LET r == MatchSearch(RxNumber, str, i, 1)
  IN IF ~r.ok THEN <<>> ELSE << r.caps[1] >> \o MatchAllNumbers(str, r.end)

\* numbers.map((n) => parseInt(n, 10))
ParseAll(numbers) == [k \in 1..Len(numbers) |-> parseInt(numbers[k])]

\* Math.min(...prices), Math.max(...prices) of a non-empty list
RECURSIVE MathMin(_)
MathMin(prices) ==
  IF Len(prices) = 1 THEN prices[1]
  ELSE LET m == MathMin(Tail(prices)) IN IF prices[1] < m THEN prices[1] ELSE m

RECURSIVE MathMax(_)
MathMax(prices) ==
  IF Len(prices) = 1 THEN prices[1]
  ELSE LET m == MathMax(Tail(prices)) IN IF prices[1] > m THEN prices[1] ELSE m

\* the tail both range parsers share: none, one, or several plausible prices
PriceExtremes(prices) ==
  IF Len(prices) = 0 THEN [min |-> NullPrice, max |-> NullPrice]
  ELSE IF Len(prices) = 1 THEN [min |-> Price(prices[1]), max |-> Price(prices[1])]
  ELSE [min |-> Price(MathMin(prices)), max |-> Price(MathMax(prices))]

\* BaseScraper.parsePrice
parsePrice(priceStr) ==
  LET m == match(RemoveChars(priceStr, {","}), RxNumber, 1)
  IN IF m.ok THEN Price(parseInt(m.caps[1])) ELSE NullPrice

\* Ticket Pia: .filter((n) => n >= 100)
TicketPiaFloor == 100

\* a filter that keeps every number
PlausibleTicketPia_Any(n) == TRUE

PlausibleTicketPia(n) == n >= TicketPiaFloor

\* TicketPiaScraper.parsePriceRange
parsePriceRange(priceStr) ==
  LET numbers == MatchAllNumbers(RemoveChars(priceStr, {","}), 1)
      prices == SelectSeq(ParseAll(numbers), PlausibleTicketPia)
  IN IF priceStr = <<>> \/ numbers = <<>> THEN [min |-> NullPrice, max |-> NullPrice]
     ELSE PriceExtremes(prices)

\* Billboard Live: .filter((n) => n >= 1000 && n <= 50000)
BillboardFloor == 1000

BillboardCeiling == 50000

PlausibleBillboard(n) == n >= BillboardFloor /\ n <= BillboardCeiling

\* BillboardLiveScraper.parsePrices
parsePrices(priceStr) ==
  LET numbers == MatchAllNumbers(RemoveChars(priceStr, {"yen", "zenyen", ","}), 1)
      prices == SelectSeq(ParseAll(numbers), PlausibleBillboard)
  IN IF priceStr = <<>> \/ numbers = <<>> THEN [min |-> NullPrice, max |-> NullPrice]
     ELSE PriceExtremes(prices)

(* --------------------- area and category detection -------------------- *)

\* Kanji and kana are written by name, one name per character: tou kyou is
\* Tokyo, oo saka Osaka, kyou to Kyoto; names that start with k and an upper
\* case letter are katakana, with h hiragana.

\* case folding of the i flag: Latin letters only
lowerChar(c) ==
  IF c \in UpperLetters THEN LowerSeq[CHOOSE i \in 1..26 : UpperSeq[i] = c] ELSE c

lowerText(t) == [i \in 1..Len(t) |-> lowerChar(t[i])]

\* the keyword occurs in the text
Includes(t, kw) ==
  \E i \in 1..(Len(t) - Len(kw) + 1) : SubSeq(t, i, i + Len(kw) - 1) = kw

\* RegExp.test of an alternation of literal keywords with the i flag
TestKeywords(kws, t) == \E kw \in kws : Includes(lowerText(t), kw)

\* BaseScraper.detectArea: areaPatterns, in order
areaPatterns ==
  << [ area |-> "Tokyo",
       keywords |-> { <<"tou", "kyou">>, <<"t", "o", "k", "y", "o">>, <<"shibu", "tani">>,
                      <<"shin", "juku">>, <<"ike", "bukuro">>, <<"gin", "za">>,
                      <<"roku", "hon", "moku">>, <<"aki", "ha", "bara">>, <<"ue", "no">>,
                      <<"asa", "kusa">> } ],
     [ area |-> "Osaka",
       keywords |-> { <<"oo", "saka">>, <<"o", "s", "a", "k", "a">>, <<"ume", "da">>,
                      <<"nan", "ba">>, <<"kokoro", "sai", "hashi">> } ],
     [ area |-> "Kyoto", keywords |-> { <<"kyou", "to">>, <<"k", "y", "o", "t", "o">> } ],
     [ area |-> "Yokohama",
       keywords |-> { <<"yoko", "hama">>, <<"y", "o", "k", "o", "h", "a", "m", "a">> } ],
     [ area |-> "Nagoya",
       keywords |-> { <<"na", "go", "ya">>, <<"n", "a", "g", "o", "y", "a">> } ],
     [ area |-> "Fukuoka",
       keywords |-> { <<"fuku", "oka">>, <<"f", "u", "k", "u", "o", "k", "a">>,
                      <<"haka", "ta">> } ],
     [ area |-> "Sapporo",
       keywords |-> { <<"satsu", "poro">>, <<"s", "a", "p", "p", "o", "r", "o">> } ],
     [ area |-> "Kobe", keywords |-> { <<"kou", "be">>, <<"k", "o", "b", "e">> } ],
     [ area |-> "Hiroshima",
       keywords |-> { <<"hiro", "shima">>, <<"h", "i", "r", "o", "s", "h", "i", "m", "a">> } ],
     [ area |-> "Sendai", keywords |-> { <<"sen", "dai">>, <<"s", "e", "n", "d", "a", "i">> } ] >>

\* BaseScraper.detectCategory: categoryPatterns, in order
categoryPatterns ==
  << [ category |-> "kabuki",
       keywords |-> { <<"uta", "mai", "waza">>, <<"k", "a", "b", "u", "k", "i">> } ],
     [ category |-> "rakugo",
       keywords |-> { <<"raku", "kataru">>, <<"r", "a", "k", "u", "g", "o">> } ],
     [ category |-> "orchestra",
       keywords |-> { <<"kO", "k-", "kKE", "kSU", "kTO", "kRA">>,
                      <<"o", "r", "c", "h", "e", "s", "t", "r", "a">>,
                      <<"majiwaru", "hibiku", "gaku">>,
                      <<"s", "y", "m", "p", "h", "o", "n", "y">>,
                      <<"kKU", "kRA", "kSHI", "kTSUs", "kKU">>,
                      <<"c", "l", "a", "s", "s", "i", "c", "a", "l">> } ],
     [ category |-> "musical",
       keywords |-> { <<"kMI", "kYUs", "k-", "kJI", "kKA", "kRU">>,
                      <<"m", "u", "s", "i", "c", "a", "l">>,
                      <<"b", "r", "o", "a", "d", "w", "a", "y">> } ],
     [ category |-> "anime",
       keywords |-> { <<"kA", "kNI", "kME">>, <<"a", "n", "i", "m", "e">>,
                      <<"m", "a", "n", "g", "a">>, <<"man", "ga">>, <<"kKO", "kRA", "kBO">>,
                      <<"c", "o", "l", "l", "a", "b">> } ],
     [ category |-> "concert",
       keywords |-> { <<"kKO", "kN", "kSA", "k-", "kTO">>,
                      <<"c", "o", "n", "c", "e", "r", "t">>, <<"kRA", "kI", "kBU">>,
                      <<"l", "i", "v", "e">>, <<"on", "gaku">>, <<"m", "u", "s", "i", "c">> } ],
     [ category |-> "theatre",
       keywords |-> { <<"enjiru", "geki">>, <<"t", "h", "e", "a", "t", "r", "e">>,
                      <<"t", "h", "e", "a", "t", "e", "r">>, <<"mai", "dai">>,
                      <<"s", "t", "a", "g", "e">> } ],
     [ category |-> "festival",
       keywords |-> { <<"matsuri", "hRI">>, <<"f", "e", "s", "t", "i", "v", "a", "l">>,
                      <<"hMA", "hTSU", "hRI">>, <<"m", "a", "t", "s", "u", "r", "i">> } ],
     [ category |-> "art",
       keywords |-> { <<"ten", "ji">>, <<"e", "x", "h", "i", "b", "i", "t", "i", "o", "n">>,
                      <<"ten", "ran">>, <<"bi", "jutsu">>, <<"a", "r", "t">>,
                      <<"m", "u", "s", "e", "u", "m">> } ],
     [ category |-> "film",
       keywords |-> { <<"ei", "ga">>, <<"f", "i", "l", "m">>, <<"m", "o", "v", "i", "e">>,
                      <<"c", "i", "n", "e", "m", "a">> } ] >>

\* for (const [pattern, value] of patterns) if (pattern.test(text)) return value
RECURSIVE FirstMatching(_, _, _)
FirstMatching(patterns, k, t) ==
  IF k > Len(patterns) THEN 0
  ELSE IF TestKeywords(patterns[k].keywords, t) THEN k
  ELSE FirstMatching(patterns, k + 1, t)

\* BaseScraper.detectArea
detectArea(t) ==
  LET k == FirstMatching(areaPatterns, 1, t)
  IN IF k = 0 THEN "Japan" ELSE areaPatterns[k].area

\* a detectCategory whose loop keeps the last matching group
detectCategory_LastWins(t) ==
  LET hits == { k \in 1..Len(categoryPatterns) : TestKeywords(categoryPatterns[k].keywords, t) }
  IN IF hits = {} THEN "event"
     ELSE categoryPatterns[CHOOSE k \in hits : \A j \in hits : j <= k].category

\* BaseScraper.detectCategory
detectCategory(t) ==
  LET k == FirstMatching(categoryPatterns, 1, t)
  IN IF k = 0 THEN "event" ELSE categoryPatterns[k].category

\* the clock of a state in which no normalizer is called
NoClock == [year |-> 0, month |-> 0, aheadOfUtc |-> FALSE, today |-> <<>>]

NoText == [date |-> <<>>, price |-> <<>>, words |-> <<>>]

NoOut == [fn |-> "", source |-> "", page |-> 0, val |-> <<>>]

NoListing == [site |-> "", pages |-> <<>>, changed |-> FALSE]

\* nothing has been called
RunIdle ==
  /\ call = NoCall
  /\ pc = "idle"
  /\ queue = <<>>
  /\ idx = 1
  /\ results = <<>>
  /\ totalEvents = 0
  /\ totalErrors = 0
  /\ saveIdx = 1
  /\ upsertLog = <<>>
  /\ cur = ""
  /\ page = 1
  /\ spc = "idle"
  /\ events = <<>>
  /\ blocksLeft = MaxBlocks
  /\ failed = 0
  /\ started = <<>>
  /\ active = {}
  /\ delays = 0

FieldIdle == now = NoClock /\ text = NoText /\ out = NoOut

StoreIdle == listing = NoListing /\ store = <<>> /\ runs = <<>>

\* no key or secret is configured
NoEnv == [DEEPL_API_KEY |-> "", GOOGLE_TRANSLATE_API_KEY |-> "", SCRAPE_API_KEY |-> "",
          CRON_SECRET |-> ""]

NoReq == [route |-> "", authorization |-> <<>>, source |-> "", save |-> "", at |-> "none",
          status |-> 0]

\* the Home component before it is mounted
NoHome == [filters |-> [area |-> "", category |-> ""], page |-> 0, events |-> <<>>,
           totalPages |-> 0, total |-> 0, loading |-> FALSE, error |-> FALSE]

MoreIdle ==
  /\ seen = <<>>
  /\ env = NoEnv
  /\ translationCache = <<>>
  /\ tcalls = <<>>
  /\ requests = <<>>
  /\ req = NoReq
  /\ home = NoHome
  /\ inflight = {}
  /\ lastIssued = <<>>

Init == RunIdle /\ FieldIdle /\ StoreIdle /\ MoreIdle

\* scraper.run() is entered: const errors = [], let events = [], then scrape()
EnterRun(s) ==
  /\ cur' = s
  /\ page' = 1
  /\ spc' = "fetch"
  /\ events' = <<>>
  /\ failed' = 0
  /\ started' = Append(started, s)
  /\ active' = active \cup {s}

(* ------------------------------ scrape() ------------------------------ *)

\* after page p is finished: the next listing page, or return events
AdvancePage ==
  IF page < Len(ListingPages(cur))
  THEN page' = page + 1 /\ spc' = "fetch"
  ELSE page' = page /\ spc' = "returned"

\* await this.fetch(url) resolves with markup
FetchOk ==
  /\ spc = "fetch"
  /\ spc' = "blocks"
  /\ UNCHANGED << page, events, failed, cur, blocksLeft >>
  /\ UNCHANGED orchVars
  /\ UNCHANGED << fieldVars, storeVars, moreVars >>

\* await this.fetch(url) throws (network error or !response.ok)
FetchFail ==
  /\ spc = "fetch"
  /\ failed' = failed + 1
  /\ CASE OnFetchFail(cur, page) = "throw" -> page' = page /\ spc' = "thrown"
       [] OnFetchFail(cur, page) = "return" -> page' = page /\ spc' = "returned"
       [] OTHER -> AdvancePage
  /\ UNCHANGED << events, cur, blocksLeft >>
  /\ UNCHANGED orchVars
  /\ UNCHANGED << fieldVars, storeVars, moreVars >>

\* the .each() callback runs on the next candidate block of the page
Block ==
  /\ spc = "blocks"
  /\ blocksLeft > 0
  /\ \E b \in Blocks(cur) :
        events' = ProcessBlock(cur, page, events, b.title, b.link, b.throws)
  /\ blocksLeft' = blocksLeft - 1
  /\ UNCHANGED << page, spc, failed, cur >>
  /\ UNCHANGED orchVars
  /\ UNCHANGED << fieldVars, storeVars, moreVars >>

\* .each() is over (and the pause after the page, where there is one)
EndPage ==
  /\ spc = "blocks"
  /\ AdvancePage
  /\ UNCHANGED << events, failed, cur, blocksLeft >>
  /\ UNCHANGED orchVars
  /\ UNCHANGED << fieldVars, storeVars, moreVars >>

(* --------------------------- top-level calls -------------------------- *)

\* runAllScrapers(options)
CallRunAll ==
  /\ pc = "idle"
  /\ \E hasSources \in BOOLEAN, saveToDb \in BOOLEAN :
       \E sources \in (IF hasSources THEN SourceLists ELSE {<<>>}) :
          /\ call' = [kind |-> "runAll", hasSources |-> hasSources, sources |-> sources,
                      saveToDb |-> saveToDb, key |-> ""]
          /\ queue' = scrapersToRun(hasSources, sources)
  /\ idx' = 1
  /\ pc' = "loop"
  /\ UNCHANGED << results, totalEvents, totalErrors, saveIdx, upsertLog, started, active,
                  delays, cur, page, spc, events, blocksLeft, failed >>
  /\ UNCHANGED << fieldVars, storeVars, moreVars >>

\* for (const scraper of scrapersToRun) { ... await scraper.run()
LoopStart ==
  /\ pc = "loop"
  /\ idx <= Len(queue)
  /\ EnterRun(queue[idx])
  /\ pc' = "running"
  /\ UNCHANGED << call, queue, idx, results, totalEvents, totalErrors, saveIdx, upsertLog,
                  delays, blocksLeft >>
  /\ UNCHANGED << fieldVars, storeVars, moreVars >>

\* the for-loop is exhausted: return { results, totalEvents, totalErrors, ... }
LoopExit ==
  /\ pc = "loop"
  /\ idx > Len(queue)
  /\ pc' = "done"
  /\ UNCHANGED << call, queue, idx, results, totalEvents, totalErrors, saveIdx, upsertLog,
                  started, active, delays, cur, page, spc, events, blocksLeft, failed >>
  /\ UNCHANGED << fieldVars, storeVars, moreVars >>

\* runScraper(scraperName, saveToDb)
CallRunScraper ==
  /\ pc = "idle"
  /\ \E key \in RequestKeys, saveToDb \in BOOLEAN :
       /\ call' = [kind |-> "runScraper", hasSources |-> FALSE, sources |-> <<>>,
                   saveToDb |-> saveToDb, key |-> key]
       /\ IF FindScraper(key) = ""
          THEN /\ results' = << [source |-> key, events |-> <<>>,
                                 errors |-> << <<"Scraper not found", key>> >>] >>
               /\ pc' = "done"
               /\ UNCHANGED << cur, page, spc, events, failed, started, active >>
          ELSE /\ EnterRun(FindScraper(key))
               /\ pc' = "running"
               /\ UNCHANGED results
  /\ UNCHANGED << queue, idx, totalEvents, totalErrors, saveIdx, upsertLog, delays,
                  blocksLeft >>
  /\ UNCHANGED << fieldVars, storeVars, moreVars >>

\* run() called on an instance of an extractor class
CallRun ==
  /\ pc = "idle"
  /\ \E s \in ScraperClasses :
       /\ call' = [kind |-> "run", hasSources |-> FALSE, sources |-> <<>>,
                   saveToDb |-> FALSE, key |-> ScraperKey(s)]
       /\ EnterRun(s)
  /\ pc' = "running"
  /\ UNCHANGED << queue, idx, results, totalEvents, totalErrors, saveIdx, upsertLog,
                  delays, blocksLeft >>
  /\ UNCHANGED << fieldVars, storeVars, moreVars >>

\* a caller that goes on without persisting
AfterRun_SkipSave(kind, saveToDb, result) ==
  IF kind = "runAll" THEN "delay" ELSE "done"

\* where the caller of run() continues once it holds the result:
\* if (saveToDb && result.events.length > 0) the upsert loop, else past it
AfterRun(kind, saveToDb, result) ==
  IF kind = "run" THEN "done"
  ELSE IF saveToDb /\ Len(result.events) > 0 THEN "saving"
  ELSE IF kind = "runAll" THEN "delay" ELSE "done"

\* an upsert loop that a failing upsertEvent leaves
AfterUpsert_StopOnFailure(kind, i, n, ok) ==
  IF i < n /\ ok THEN "saving"
  ELSE IF kind = "runAll" THEN "delay" ELSE "done"

\* where the upsert loop continues after upsertEvent(events[i]) returned (ok)
\* or threw into the catch inside the loop body
AfterUpsert(kind, i, n, ok) ==
  IF i < n THEN "saving"
  ELSE IF kind = "runAll" THEN "delay" ELSE "done"

\* scrape() has returned or thrown: run() returns its ScraperResult, and the
\* caller takes it
RunReturn ==
  /\ pc = "running"
  /\ spc \in {"returned", "thrown"}
  /\ LET result == RunResult(cur, events, spc = "thrown")
     IN /\ results' = Append(results, result)
        /\ IF call.kind = "runAll"
           THEN /\ totalEvents' = totalEvents + Len(result.events)
                /\ totalErrors' = totalErrors + Len(result.errors)
           ELSE UNCHANGED << totalEvents, totalErrors >>
        /\ pc' = AfterRun(call.kind, call.saveToDb, result)
  /\ saveIdx' = 1
  /\ active' = active \ {cur}
  /\ cur' = ""
  /\ spc' = "idle"
  /\ events' = <<>>
  /\ page' = 1
  /\ failed' = 0
  /\ UNCHANGED << call, queue, idx, upsertLog, started, delays, blocksLeft >>
  /\ UNCHANGED << fieldVars, storeVars, moreVars >>

\* one iteration of for (const event of result.events) { try { upsertEvent(event) } ... }
Upsert ==
  /\ pc = "saving"
  /\ LET r == Len(results)
         event == results[r].events[saveIdx]
     IN \E ok \in BOOLEAN :
          /\ upsertLog' = Append(upsertLog, [id |-> event.id, ok |-> ok, batch |-> r])
          /\ IF ok
             THEN UNCHANGED << results, totalErrors >>
             ELSE IF call.kind = "runAll"
                  THEN totalErrors' = totalErrors + 1 /\ UNCHANGED results
                  ELSE /\ results' = [results EXCEPT ![r].errors =
                                        Append(@, <<"Error saving event", event.id>>)]
                       /\ UNCHANGED totalErrors
          /\ saveIdx' = saveIdx + 1
          /\ pc' = AfterUpsert(call.kind, saveIdx, Len(results[r].events), ok)
  /\ UNCHANGED << call, queue, idx, totalEvents, started, active, delays,
                  cur, page, spc, events, blocksLeft, failed >>
  /\ UNCHANGED << fieldVars, storeVars, moreVars >>

\* await new Promise((resolve) => setTimeout(resolve, 1000)) at the end of the loop body
Delay ==
  /\ pc = "delay"
  /\ delays' = delays + 1
  /\ idx' = idx + 1
  /\ pc' = "loop"
  /\ UNCHANGED << call, queue, results, totalEvents, totalErrors, saveIdx, upsertLog,
                  started, active, cur, page, spc, events, blocksLeft, failed >>
  /\ UNCHANGED << fieldVars, storeVars, moreVars >>

Next ==
  \/ CallRunAll
  \/ CallRunScraper
  \/ CallRun
  \/ LoopStart
  \/ LoopExit
  \/ FetchOk
  \/ FetchFail
  \/ Block
  \/ EndPage
  \/ RunReturn
  \/ Upsert
  \/ Delay

Spec == Init /\ [][Next]_vars

(* ----------------------- calls of the normalizers ---------------------- *)

\* String(n), for the texts below
N(n) == NumberToString(n)

\* the clocks a call may read: three months of one year, the local time zone
\* at or ahead of UTC
Clocks ==
  { [ year |-> 2025, month |-> m, aheadOfUtc |-> a,
      today |-> DateString(N(2025), N(m), N(15)) ] : m \in {1, 6, 12}, a \in BOOLEAN }

\* months and days the date texts name
TextMonths == {1, 5, 6, 7, 12}

TextDays == {5, 20}

\* a year written out in a date text
TextYear == N(2026)

\* a weekday in full-width parentheses, as the listings append it
WeekdaySuffix == << "zen(", "do", "zen)" >>

\* M/D, M.D and M月D日, bare or followed by a weekday
ShortDateTexts ==
  LET bare == { N(m) \o <<sep>> \o N(d) : m \in TextMonths, d \in TextDays, sep \in {"/", "."} }
                \cup { N(m) \o <<"gatsu">> \o N(d) \o <<"nichi">> : m \in TextMonths, d \in TextDays }
  IN bare \cup { t \o WeekdaySuffix : t \in bare }

\* dates that carry their year
FullDateTexts ==
  { TextYear \o <<"nen">> \o N(m) \o <<"gatsu">> \o N(d) \o <<"nichi">> :
      m \in TextMonths, d \in TextDays }
    \cup { TextYear \o <<sep>> \o N(m) \o <<sep>> \o N(d) :
             m \in TextMonths, d \in TextDays, sep \in {"/", "."} }
    \cup { DateString(TextYear, N(m), N(d)) : m \in TextMonths, d \in TextDays }

\* M月D1日〜D2日 and M1月D1日〜M2月D2日
RangeTexts ==
  { N(m) \o <<"gatsu">> \o N(2) \o <<"nichi", dash>> \o N(d2) \o <<"nichi">> :
      m \in TextMonths, d2 \in {8, 26}, dash \in KabukiDash }
    \cup { N(m1) \o <<"gatsu">> \o N(2) \o <<"nichi", dash>> \o N(m2) \o <<"gatsu">>
             \o N(26) \o <<"nichi">> :
               m1 \in TextMonths, m2 \in TextMonths, dash \in KabukiDash }

\* exhibition periods as Tokyo Art Beat prints them
ExhibitionTexts ==
  { <<"J", "u", "n", " ", "5", " ", "-", " ", "J", "u", "l", " ", "2", "0", ",", " ",
      "2", "0", "2", "6">>,
    <<"J", "u", "n", " ", "5", ",", " ", "2", "0", "2", "6", " ", "endash", " ",
      "J", "u", "l", " ", "2", "0", ",", " ", "2", "0", "2", "6">>,
    <<"D", "e", "c", " ", "5", " ", "-", " ", "J", "a", "n", " ", "2", "0">>,
    <<"F", "r", "i", " ", "5", " ", "-", " ", "S", "u", "n", " ", "7">>,
    <<"J", "u", "n", "e", " ", "5", ",", " ", "2", "0", "2", "6">>,
    <<"F", "r", "o", "m", " ", "J", "u", "n", "e", " ", "5", ",", " ", "2", "0", "2", "6">>,
    TextYear \o <<"nen", "6", "gatsu", "5", "nichi", "nami", "7", "gatsu", "2", "0", "nichi">>,
    TextYear \o <<"nen", "1", "2", "gatsu", "5", "nichi", "endash", "2", "0", "2", "7", "nen",
                  "1", "gatsu", "2", "0", "nichi">> }

\* periods as the Parco pages print them
ParcoTexts ==
  { TextYear \o <<".", "1", ".", "1", "5", "(", "moku", ")", "-", "2", ".", "8">>,
    TextYear \o <<"nen", "1", "gatsu", "1", "5", "nichi">>,
    <<"1", "gatsu", "1", "5", "nichi", "nami", "2", "gatsu", "8", "nichi">>,
    <<"1", "gatsu", "1", "5", "nichi", "nami", "2", "8", "nichi">>,
    <<"1", "gatsu", "1", "5", "nichi", "nami", "8", "nichi">>,
    <<"1", ".", "1", "5", "-", "2", ".", "8">>,
    <<"1", ".", "1", "5", "-", "8">>,
    <<"1", ".", "1", "5">> }

\* texts without a date: missing, words, a lone number
UndatedTexts == { <<>>, <<"T", "B", "A">>, <<"kin", "nichi">>, <<"5">>, <<"V", "o", "l", ".", "5">> }

DateTexts ==
  ShortDateTexts \cup FullDateTexts \cup RangeTexts \cup ExhibitionTexts \cup ParcoTexts
    \cup UndatedTexts

\* amounts around the plausibility bounds of the price parsers
Amounts == {50, 99, 100, 999, 1000, 4000, 50000, 50001}

\* an amount with its thousands separator
WithCommas(n) ==
  LET r == n % 1000
      pad == IF r < 10 THEN <<"0", "0">> ELSE IF r < 100 THEN <<"0">> ELSE <<>>
  IN IF n < 1000 THEN N(n) ELSE N(n \div 1000) \o <<",">> \o pad \o N(r)

\* one price, a range of two, a seat list of three, and texts without a number
PriceTexts ==
  { <<>>, <<"f", "r", "e", "e">>, <<"mu", "ryou">> }
    \cup { WithCommas(n) \o <<"en">> : n \in Amounts }
    \cup { <<sign>> \o WithCommas(n) : n \in Amounts, sign \in {"yen", "zenyen"} }
    \cup { <<"yen">> \o N(n) : n \in Amounts }
    \cup { WithCommas(a) \o <<"en", "nami">> \o WithCommas(b) \o <<"en">> :
             a \in Amounts, b \in Amounts }
    \cup { <<"S">> \o WithCommas(a) \o <<"en", " ", "A">> \o WithCommas(b) \o <<"en", " ", "B">>
             \o WithCommas(c) \o <<"en">> :
               a \in {99, 4000}, b \in {999, 50000}, c \in {100, 50001} }

\* every keyword of a pattern list
KeywordsOf(patterns) == UNION { patterns[k].keywords : k \in 1..Len(patterns) }

upperChar(c) ==
  IF c \in LowerLetters THEN UpperSeq[CHOOSE i \in 1..26 : LowerSeq[i] = c] ELSE c

upperText(t) == [i \in 1..Len(t) |-> upperChar(t[i])]

\* a word no pattern knows
Noise == <<"x", "y", "z">>

\* the Latin-script keywords of a pattern list
LatinKeywords(patterns) ==
  { kw \in KeywordsOf(patterns) : \A i \in 1..Len(kw) : kw[i] \in LowerLetters }

\* venue, title and description texts: a keyword in lower or upper case,
\* two words (each a Latin keyword or noise, or two kanji keywords), and
\* three words across the first six category groups
WordTexts ==
  LET words(patterns) == LatinKeywords(patterns) \cup {Noise}
      pairs(patterns) == { a \o <<" ">> \o b : a \in words(patterns), b \in words(patterns) }
      upper(patterns) == { upperText(a) : a \in KeywordsOf(patterns) }
      group(k) == categoryPatterns[k].keywords
      triples == { a \o <<" ">> \o b \o <<" ">> \o c :
                     a \in LatinKeywords(<< categoryPatterns[1], categoryPatterns[2],
                                            categoryPatterns[4], categoryPatterns[5] >>),
                     b \in group(3), c \in group(6) }
  IN { <<>> } \cup KeywordsOf(areaPatterns) \cup KeywordsOf(categoryPatterns)
       \cup upper(areaPatterns) \cup upper(categoryPatterns)
       \cup pairs(areaPatterns) \cup pairs(categoryPatterns)
       \cup { a \o b : a \in group(3) \ LatinKeywords(categoryPatterns),
                       b \in group(6) \ LatinKeywords(categoryPatterns) }
       \cup triples

\* the texts of a candidate block: one of the three varies, and a few blocks
\* carry all three
BlockTexts ==
  { [date |-> d, price |-> <<>>, words |-> <<>>] : d \in DateTexts }
    \cup { [date |-> <<>>, price |-> p, words |-> <<>>] : p \in PriceTexts }
    \cup { [date |-> <<>>, price |-> <<>>, words |-> w] : w \in WordTexts }
    \cup { [date |-> d, price |-> p, words |-> <<"T", "o", "k", "y", "o">>] :
             d \in ParcoTexts \cup UndatedTexts,
             p \in { <<>>, <<"4", ",", "0", "0", "0", "en">>,
                     <<"3", ",", "0", "0", "0", "en", "nami", "8", ",", "0", "0", "0", "en">> } }

\* a normalizer is about to be called on the texts of a block
FieldInit == RunIdle /\ StoreIdle /\ MoreIdle /\ now \in Clocks /\ text \in BlockTexts /\ out = NoOut

\* what a call returned
Returned(fn, source, p, val) == [fn |-> fn, source |-> source, page |-> p, val |-> val]

\* TicketPiaScraper.parseJapaneseDate(dateText) returns
CallTicketPiaParseJapaneseDate ==
  /\ out = NoOut
  /\ out' = Returned("TicketPia.parseJapaneseDate", TP, 0, TicketPia_parseJapaneseDate(text.date))
  /\ UNCHANGED << now, text, runVars, storeVars, moreVars >>

\* BillboardLiveScraper.parseDateStr(dateText) returns
CallParseDateStr ==
  /\ out = NoOut
  /\ out' = Returned("parseDateStr", BB, 0, parseDateStr(text.date))
  /\ UNCHANGED << now, text, runVars, storeVars, moreVars >>

\* NHKSymphonyScraper.parseJapaneseDate(dateText) returns
CallNhkParseJapaneseDate ==
  /\ out = NoOut
  /\ out' = Returned("NHK.parseJapaneseDate", NHK, 0, NHK_parseJapaneseDate(text.date))
  /\ UNCHANGED << now, text, runVars, storeVars, moreVars >>

\* KabukiBitoScraper.parseKabukiDateRange(dateText) returns
CallParseKabukiDateRange ==
  /\ out = NoOut
  /\ out' = Returned("parseKabukiDateRange", KB, 0, parseKabukiDateRange(text.date))
  /\ UNCHANGED << now, text, runVars, storeVars, moreVars >>

\* BaseScraper.parseDate(dateText) returns
CallParseDate ==
  /\ out = NoOut
  /\ \E val \in parseDate(text.date) : out' = Returned("parseDate", "", 0, val)
  /\ UNCHANGED << now, text, runVars, storeVars, moreVars >>

\* TokyoArtBeatScraper.parseExhibitionDates(dateText) returns
CallParseExhibitionDates ==
  /\ out = NoOut
  /\ \E val \in parseExhibitionDates(text.date) : out' = Returned("parseExhibitionDates", TAB, 0, val)
  /\ UNCHANGED << now, text, runVars, storeVars, moreVars >>

\* ParcoScraper.parseDateRange(dateText) returns
CallParseDateRange ==
  /\ out = NoOut
  /\ out' = Returned("parseDateRange", PARCO, 0, parseDateRange(text.date))
  /\ UNCHANGED << now, text, runVars, storeVars, moreVars >>

\* BaseScraper.parsePrice(priceText) returns
CallParsePrice ==
  /\ out = NoOut
  /\ out' = Returned("parsePrice", "", 0, parsePrice(text.price))
  /\ UNCHANGED << now, text, runVars, storeVars, moreVars >>

\* TicketPiaScraper.parsePriceRange(priceText) returns
CallParsePriceRange ==
  /\ out = NoOut
  /\ out' = Returned("parsePriceRange", TP, 0, parsePriceRange(text.price))
  /\ UNCHANGED << now, text, runVars, storeVars, moreVars >>

\* BillboardLiveScraper.parsePrices(priceText) returns
CallParsePrices ==
  /\ out = NoOut
  /\ out' = Returned("parsePrices", BB, 0, parsePrices(text.price))
  /\ UNCHANGED << now, text, runVars, storeVars, moreVars >>

\* BaseScraper.detectArea(text) returns
CallDetectArea ==
  /\ out = NoOut
  /\ out' = Returned("detectArea", "", 0, detectArea(text.words))
  /\ UNCHANGED << now, text, runVars, storeVars, moreVars >>

\* BaseScraper.detectCategory(text) returns
CallDetectCategory ==
  /\ out = NoOut
  /\ out' = Returned("detectCategory", "", 0, detectCategory(text.words))
  /\ UNCHANGED << now, text, runVars, storeVars, moreVars >>

\* the pages whose callback pushes events: the first two pages of every
\* extractor (later pages run the callback of the second) but NHK Symphony's
\* English page, which only back-fills
PushingPages == { sp \in ScraperClasses \X (1..2) : ~(sp[1] = NHK /\ sp[2] = 2) }

\* the event's date and price fields
Fields(date_start, date_end, price_min, price_max) ==
  [ throws |-> FALSE, date_start |-> date_start, date_end |-> date_end,
    price_min |-> price_min, price_max |-> price_max ]

\* the callback's try block is left by an exception: no event is pushed
Thrown ==
  [ throws |-> TRUE, date_start |-> Null, date_end |-> Null,
    price_min |-> NullPrice, price_max |-> NullPrice ]

\* a fallback that keeps what the parser returned
OrToday_Keep(date) == date

\* x || new Date().toISOString().split("T")[0]
OrToday(date) == IF date = Null THEN Today ELSE date

\* price_min of the NHK Symphony events
NhkPriceMin == 5000

\* price_max of the NHK Symphony events
NhkPriceMax == 15000

\* the date and price fields the callback of page p of s gives the event it
\* pushes for a block with a valid title and link: the set of possible results
EventFields(s, p) ==
  CASE s = TC /\ p = 1 ->
         { Fields(OrToday(date), Null, parsePrice(text.price), NullPrice) :
             date \in parseDate(text.date) }
    [] s = TC /\ p = 2 -> { Fields(Today, Null, NullPrice, NullPrice) }
    [] s = JT ->
         { Fields(OrToday(date), Null, NullPrice, NullPrice) : date \in parseDate(text.date) }
    [] s = TP ->
         LET prices == parsePriceRange(text.price)
         IN { Fields(OrToday(TicketPia_parseJapaneseDate(text.date)), Null,
                     prices.min, prices.max) }
    [] s = KB /\ p = 1 ->
         LET dates == parseKabukiDateRange(text.date)
         IN { Fields(dates.start, dates.end, parsePrice(text.price), NullPrice) }
    [] s = KB /\ p = 2 ->
         LET dates == parseKabukiDateRange(text.date)
         IN { Fields(dates.start, dates.end, NullPrice, NullPrice) }
    [] s = TAB ->
         { Fields(dates.start, dates.end, NullPrice, NullPrice) :
             dates \in parseExhibitionDates(text.date) }
    [] s = NHK ->
         { Fields(OrToday(NHK_parseJapaneseDate(text.date)), Null,
                  Price(NhkPriceMin), Price(NhkPriceMax)) }
    [] s = BB ->
         LET prices == parsePrices(text.price)
         IN { Fields(OrToday(parseDateStr(text.date)), Null, prices.min, prices.max) }
    [] s = PARCO ->
         LET dates == parseDateRange(text.date)
         IN { IF dates.throws THEN Thrown
              ELSE Fields(dates.start, dates.end, NullPrice, NullPrice) }

\* the .each() callback of a pushing page runs on a block with a valid title and link
Callback ==
  /\ out = NoOut
  /\ \E sp \in PushingPages : \E fields \in EventFields(sp[1], sp[2]) :
       out' = Returned("callback", sp[1], sp[2], fields)
  /\ UNCHANGED << now, text, runVars, storeVars, moreVars >>

FieldNext ==
  \/ CallTicketPiaParseJapaneseDate
  \/ CallParseDateStr
  \/ CallNhkParseJapaneseDate
  \/ CallParseKabukiDateRange
  \/ CallParseDate
  \/ CallParseExhibitionDates
  \/ CallParseDateRange
  \/ CallParsePrice
  \/ CallParsePriceRange
  \/ CallParsePrices
  \/ CallDetectArea
  \/ CallDetectCategory
  \/ Callback

FieldSpec == FieldInit /\ [][FieldNext]_vars

(* ---------------------------- re-scraping ------------------------------ *)

\* runs of one extractor a behaviour holds
MaxRuns == 2

\* candidate blocks on one listing page
MaxListed == 2

\* the candidate blocks the listing pages hold: two titles, two links, so
\* that blocks share a url, a title, both or neither
ListedBlocks ==
  { [title |-> t, link |-> [abs |-> FALSE, origin |-> "", path |-> l], throws |-> FALSE] :
      t \in { <<"N", "o", "9">>, <<"bi", "jutsu", "ten">> }, l \in {"/e1", "/e2"} }
    \ { [title |-> <<"bi", "jutsu", "ten">>,
         link |-> [abs |-> FALSE, origin |-> "", path |-> "/e2"], throws |-> FALSE] }

\* the block lists a listing page may hold
ListedPages == UNION { [1..n -> ListedBlocks] : n \in 0..MaxListed }

\* the contents of the first two listing pages (further pages hold no block)
Listings(s) ==
  { [site |-> s, pages |-> << p1, p2 >>, changed |-> FALSE] :
      p1 \in ListedPages, p2 \in { q \in ListedPages : Len(q) <= 1 } }

\* the callback of page p applied to blocks[k..], in document order
RECURSIVE ScrapePage(_, _, _, _, _)
ScrapePage(s, p, evs, blocks, k) ==
  IF k > Len(blocks) THEN evs
  ELSE ScrapePage(s, p,
                  ProcessBlock(s, p, evs, blocks[k].title, blocks[k].link, blocks[k].throws),
                  blocks, k + 1)

\* scrape() when every fetch succeeds: the events list after the pages, in order
ScrapeListing(s, pages) == ScrapePage(s, 2, ScrapePage(s, 1, <<>>, pages[1], 1), pages[2], 1)

\* an upsert that always inserts
upsertEventSqlite_InsertOnly(rows, event) == Append(rows, event)

\* INSERT INTO events ... ON CONFLICT(id) DO UPDATE SET ...: the table after the statement
upsertEventSqlite(rows, event) ==
  IF \E r \in 1..Len(rows) : rows[r].id = event.id
  THEN [ r \in 1..Len(rows) |-> IF rows[r].id = event.id THEN event ELSE rows[r] ]
  ELSE Append(rows, event)

\* for (const event of result.events) upsertEvent(event)
RECURSIVE SaveEvents(_, _, _)
SaveEvents(rows, evs, k) ==
  IF k > Len(evs) THEN rows ELSE SaveEvents(upsertEventSqlite(rows, evs[k]), evs, k + 1)

\* the ids held by a list of events or rows
Ids(rows) == { rows[r].id : r \in 1..Len(rows) }

\* an extractor is about to be run, with persistence, over its listing pages
StoreInit == RunIdle /\ FieldIdle /\ MoreIdle /\ store = <<>> /\ runs = <<>>
             /\ \E s \in ScraperClasses : listing \in Listings(s)

\* runScraper(key, saveToDb = true): every fetch and every upsert succeeds
Rescrape ==
  /\ Len(runs) < MaxRuns
  /\ LET evs == ScrapeListing(listing.site, listing.pages)
         rows == SaveEvents(store, evs, 1)
     IN /\ store' = rows
        /\ runs' = Append(runs, [ pages |-> listing.pages, ids |-> Ids(evs),
                                  stored |-> Ids(rows) ])
  /\ UNCHANGED << listing, runVars, fieldVars, moreVars >>

\* the site changes what its listing pages hold (once)
Relist ==
  /\ ~listing.changed
  /\ \E l \in Listings(listing.site) :
       /\ l.pages # listing.pages
       /\ listing' = [l EXCEPT !.changed = TRUE]
  /\ UNCHANGED << store, runs, runVars, fieldVars, moreVars >>

StoreNext == Rescrape \/ Relist

StoreSpec == StoreInit /\ [][StoreNext]_vars

(* ----------------------- Ticket Pia's scrape() ------------------------ *)

\* TicketPiaScraper.categories: the category of each path of ListingPages(TP)
categories == << "concert", "orchestra", "theatre", "musical", "rakugo", "anime" >>

\* tags without the marker
PiaTags_CategoryOnly(category) == << category >>

\* tags: [category, "tickets-available"]
PiaTags(category) == << category, "tickets-available" >>

\* the object literal passed to events.push, with its category and tags
PiaEvent(p, url, title) ==
  [ id |-> generateId("pia", url, <<>>),
    title_ja |-> title,
    title_en |-> Null,
    source_url |-> url,
    source_name |-> TP,
    category |-> categories[p],
    tags |-> PiaTags(categories[p]) ]

\* the candidate blocks of a category page: a title too short, two titles
\* long enough, any href, and the block whose field extraction throws
PiaBlocks == { b \in Blocks(TP) : b.title \in { <<"K">>, <<"K", "9">>, <<"N", "o", "9">> } }

\* one invocation of the .each() callback of category p on block b
PiaCallback(p, evs, b) ==
  IF ~TitleOk(TP, p, b.title) THEN evs
  ELSE IF b.link = NoLink THEN evs
  ELSE LET fullUrl == ResolveUrl(TP, p, b.link)
       IN IF IsDuplicate(TP, p, evs, fullUrl, b.title) THEN evs
          ELSE IF b.throws THEN evs
          ELSE Append(evs, PiaEvent(p, fullUrl, b.title))

\* the next iteration of the for-loop over categories, or return events
PiaNextCategory ==
  IF page < Len(categories)
  THEN page' = page + 1 /\ spc' = "fetch"
  ELSE page' = page /\ spc' = "returned"

\* scrape() is called: const events = [], first category
PiaScrape ==
  /\ spc = "idle"
  /\ cur' = TP
  /\ page' = 1
  /\ spc' = "fetch"
  /\ events' = <<>>
  /\ UNCHANGED << blocksLeft, failed, seen >>
  /\ UNCHANGED orchVars
  /\ UNCHANGED << fieldVars, storeVars >>
  /\ UNCHANGED << env, translationCache, tcalls, requests, req, home, inflight, lastIssued >>

\* await this.fetch(url) resolves
PiaFetchOk ==
  /\ cur = TP /\ spc = "fetch"
  /\ spc' = "blocks"
  /\ UNCHANGED << cur, page, events, blocksLeft, failed, seen >>
  /\ UNCHANGED orchVars
  /\ UNCHANGED << fieldVars, storeVars >>
  /\ UNCHANGED << env, translationCache, tcalls, requests, req, home, inflight, lastIssued >>

\* await this.fetch(url) throws: the catch of the loop body logs it
PiaFetchFail ==
  /\ cur = TP /\ spc = "fetch"
  /\ failed' = failed + 1
  /\ PiaNextCategory
  /\ UNCHANGED << cur, events, blocksLeft, seen >>
  /\ UNCHANGED orchVars
  /\ UNCHANGED << fieldVars, storeVars >>
  /\ UNCHANGED << env, translationCache, tcalls, requests, req, home, inflight, lastIssued >>

\* the .each() callback runs on the next candidate block of the page
PiaBlock ==
  /\ cur = TP /\ spc = "blocks"
  /\ blocksLeft > 0
  /\ \E b \in PiaBlocks :
       /\ events' = PiaCallback(page, events, b)
       /\ seen' = Append(seen, [page |-> page, block |-> b])
  /\ blocksLeft' = blocksLeft - 1
  /\ UNCHANGED << cur, page, spc, failed >>
  /\ UNCHANGED orchVars
  /\ UNCHANGED << fieldVars, storeVars >>
  /\ UNCHANGED << env, translationCache, tcalls, requests, req, home, inflight, lastIssued >>

\* .each() is over: await new Promise((resolve) => setTimeout(resolve, 500))
PiaPause ==
  /\ cur = TP /\ spc = "blocks"
  /\ spc' = "pause"
  /\ UNCHANGED << cur, page, events, blocksLeft, failed, seen >>
  /\ UNCHANGED orchVars
  /\ UNCHANGED << fieldVars, storeVars >>
  /\ UNCHANGED << env, translationCache, tcalls, requests, req, home, inflight, lastIssued >>

\* the 500 ms have elapsed
PiaResume ==
  /\ cur = TP /\ spc = "pause"
  /\ PiaNextCategory
  /\ UNCHANGED << cur, events, blocksLeft, failed, seen >>
  /\ UNCHANGED orchVars
  /\ UNCHANGED << fieldVars, storeVars >>
  /\ UNCHANGED << env, translationCache, tcalls, requests, req, home, inflight, lastIssued >>

PiaNext == PiaScrape \/ PiaFetchOk \/ PiaFetchFail \/ PiaBlock \/ PiaPause \/ PiaResume

PiaSpec == Init /\ [][PiaNext]_vars

(* ------------------------ classifying a title ------------------------- *)

\* length of the titles handed to isEnglishText
MaxTitleLen == 4

\* the characters of a title: Latin letters of both cases, a kanji, a digit,
\* a space and an ideographic space
TitleChars == {"a", "Z", "bi", "9", " ", "zenspace"}

TitleTexts == { <<>> } \cup UNION { [1..n -> TitleChars] : n \in 1..MaxTitleLen }

\* a title as .text().trim() leaves it
Trimmed(t) ==
  IF Len(t) = 0 THEN TRUE ELSE t[1] \notin Whitespace /\ t[Len(t)] \notin Whitespace

TitleInit ==
  /\ RunIdle /\ StoreIdle /\ MoreIdle
  /\ now = NoClock
  /\ text \in { [date |-> <<>>, price |-> <<>>, words |-> t] : t \in TitleTexts }
  /\ out = NoOut

\* BillboardLiveScraper.isEnglishText(text) returns
CallIsEnglishText ==
  /\ out = NoOut
  /\ out' = Returned("isEnglishText", BB, 0, isEnglishText(text.words))
  /\ UNCHANGED << now, text, runVars, storeVars, moreVars >>

\* the callback of a venue page pushes the event of a block with this title
PushBillboardEvent ==
  /\ out = NoOut
  /\ Trimmed(text.words) /\ TitleOk(BB, 1, text.words)
  /\ \E p \in 1..Len(ListingPages(BB)) :
       out' = Returned("events.push", BB, p, NewEvent(BB, p, DefaultUrl(BB, p), text.words))
  /\ UNCHANGED << now, text, runVars, storeVars, moreVars >>

TitleNext == CallIsEnglishText \/ PushBillboardEvent

TitleSpec == TitleInit /\ [][TitleNext]_vars

(* ---------------------------- translation ----------------------------- *)

\* calls of translateJapaneseToEnglish in one process
MaxTranslateCalls == 3

\* new Map<string, string>()
EmptyMap == [t \in {} |-> Undefined]

\* commonTerms, in insertion order (the order of Object.entries)
commonTerms ==
  << [jp |-> <<"ooyake", "enjiru">>, en |-> "Performance"],
     [jp |-> <<"enjiru", "kanaderu", "au">>, en |-> "Concert"],
     [jp |-> <<"majiwaru", "hibiku", "gaku", "dan">>, en |-> "Symphony Orchestra"],
     [jp |-> <<"sadameru", "ki", "enjiru", "kanaderu", "au">>, en |-> "Regular Concert"],
     [jp |-> <<"uta", "mai", "waza">>, en |-> "Kabuki"],
     [jp |-> <<"raku", "kataru">>, en |-> "Rakugo"],
     [jp |-> <<"atarashii", "haru">>, en |-> "New Year"],
     [jp |-> <<"hajime", "haru">>, en |-> "Early Spring"],
     [jp |-> <<"ookii", "uta", "mai", "waza">>, en |-> "Grand Kabuki"],
     [jp |-> <<"za">>, en |-> "Theater"],
     [jp |-> <<"geki", "ba">>, en |-> "Theater"],
     [jp |-> <<"kHO", "k-", "kRU">>, en |-> "Hall"],
     [jp |-> <<"bi", "jutsu", "yakata">>, en |-> "Museum"],
     [jp |-> <<"ten", "ran", "au">>, en |-> "Exhibition"],
     [jp |-> <<"ten", "ji">>, en |-> "Exhibition"],
     [jp |-> <<"kKO", "kN", "kSA", "k-", "kTO">>, en |-> "Concert"],
     [jp |-> <<"kRA", "kI", "kBU">>, en |-> "Live"],
     [jp |-> <<"kFU", "kEs", "kSU", "kTE", "kIs", "kBA", "kRU">>, en |-> "Festival"],
     [jp |-> <<"matsuri", "hRI">>, en |-> "Festival"],
     [jp |-> <<"hMA", "hTSU", "hRI">>, en |-> "Festival"] >>

\* result.replace(new RegExp(jp, "g"), en): every occurrence, left to right;
\* the inserted English term is kept as one token
RECURSIVE ReplaceAll(_, _, _, _)
ReplaceAll(t, jp, en, k) ==
  IF k > Len(t) THEN <<>>
  ELSE IF k + Len(jp) - 1 <= Len(t) /\ SubSeq(t, k, k + Len(jp) - 1) = jp
       THEN <<en>> \o ReplaceAll(t, jp, en, k + Len(jp))
       ELSE <<t[k]>> \o ReplaceAll(t, jp, en, k + 1)

\* basicTranslate(text): the loop over Object.entries(commonTerms)
RECURSIVE basicTranslateFrom(_, _)
basicTranslateFrom(result, n) ==
  IF n > Len(commonTerms) THEN result
  ELSE basicTranslateFrom(ReplaceAll(result, commonTerms[n].jp, commonTerms[n].en, 1), n + 1)

basicTranslate(str) == basicTranslateFrom(str, 1)

\* the texts handed to translateJapaneseToEnglish: the empty string, white
\* space only, two titles of known terms, a title without any
TranslateTexts ==
  { <<>>, <<" ", "zenspace">>,
    <<"ookii", "uta", "mai", "waza">>,
    <<"x">> }

\* what a provider answers: a translation, another one, the empty string
ProviderOutputs == { <<"A">>, <<"B">>, <<>> }

\* the keys that may be configured
Envs ==
  { [NoEnv EXCEPT !.DEEPL_API_KEY = d, !.GOOGLE_TRANSLATE_API_KEY = g] :
      d \in {"", "deepl-key"}, g \in {"", "google-key"} }

\* !text || text.trim().length === 0
IsBlank(str) == \A i \in 1..Len(str) : str[i] \in Whitespace

\* translationCache.get(text)
CacheGet(cache, key) == IF key \in DOMAIN cache THEN cache[key] ELSE Undefined

\* if (cached): undefined and the empty string are falsy
Truthy(cached) == cached # Undefined /\ cached # <<>>

\* translationCache.set(text, result)
CacheSet(cache, key, result) ==
  [t \in DOMAIN cache \cup {key} |-> IF t = key THEN result ELSE cache[t]]

\* return { original: text, translated, provider }
TranslationResult(c, translated, provider) ==
  [c EXCEPT !.at = "returned", !.translated = translated, !.provider = provider]

\* lines 79-81: the basic term replacement
Fallback(c) == TranslationResult(c, basicTranslate(c.text), "fallback")

\* lines 68-81: Google when configured, else the fallback
TryGoogle(c) ==
  IF env.GOOGLE_TRANSLATE_API_KEY # "" THEN [c EXCEPT !.at = "google"] ELSE Fallback(c)

\* a catch that lets the provider's error leave the function
AfterDeepLFailed_Rethrow(c) == [c EXCEPT !.at = "thrown"]

\* lines 63-65: the catch logs the error and control falls through to Google
AfterDeepLFailed(c) == TryGoogle([c EXCEPT !.failed = @ \cup {"deepl"}])

\* lines 74-76: the catch logs the error and control falls through
AfterGoogleFailed(c) == Fallback([c EXCEPT !.failed = @ \cup {"google"}])

\* lines 47-58: the call up to its first await
BeginTranslate(c) ==
  IF IsBlank(c.text) THEN TranslationResult(c, c.text, "fallback")
  ELSE IF Truthy(CacheGet(translationCache, c.text))
       THEN TranslationResult(c, CacheGet(translationCache, c.text), "cache")
       ELSE IF env.DEEPL_API_KEY # "" THEN [c EXCEPT !.at = "deepl"]
            ELSE TryGoogle(c)

\* the provider requests a step of call i issues
Issued(i, before, after) ==
  IF after.at \in {"deepl", "google"} /\ after.at # before.at
  THEN << [call |-> i, provider |-> after.at] >>
  ELSE <<>>

\* the calls that have returned
ReturnedCalls == { i \in 1..Len(tcalls) : tcalls[i].at = "returned" }

TranslateInit ==
  /\ RunIdle /\ FieldIdle /\ StoreIdle
  /\ seen = <<>> /\ req = NoReq /\ home = NoHome /\ inflight = {} /\ lastIssued = <<>>
  /\ env \in Envs
  /\ translationCache = EmptyMap
  /\ tcalls = <<>>
  /\ requests = <<>>

\* translateJapaneseToEnglish(text) is called and runs to its first await
CallTranslate ==
  /\ Len(tcalls) < MaxTranslateCalls
  /\ \E t \in TranslateTexts :
       LET new == [text |-> t, at |-> "called", translated |-> Undefined, provider |-> "",
                   failed |-> {}, after |-> ReturnedCalls]
           c == BeginTranslate(new)
       IN /\ tcalls' = Append(tcalls, c)
          /\ requests' = requests \o Issued(Len(tcalls) + 1, new, c)
  /\ UNCHANGED << translationCache, env, seen, req, home, inflight, lastIssued >>
  /\ UNCHANGED << runVars, fieldVars, storeVars >>

\* await translateWithDeepL(text) resolves: cache, return
DeepLResolves ==
  /\ \E i \in 1..Len(tcalls) : \E result \in ProviderOutputs :
       /\ tcalls[i].at = "deepl"
       /\ translationCache' = CacheSet(translationCache, tcalls[i].text, result)
       /\ tcalls' = [tcalls EXCEPT ![i] = TranslationResult(@, result, "deepl")]
  /\ UNCHANGED << requests, env, seen, req, home, inflight, lastIssued >>
  /\ UNCHANGED << runVars, fieldVars, storeVars >>

\* await translateWithDeepL(text) throws
DeepLFails ==
  /\ \E i \in 1..Len(tcalls) :
       /\ tcalls[i].at = "deepl"
       /\ tcalls' = [tcalls EXCEPT ![i] = AfterDeepLFailed(@)]
       /\ requests' = requests \o Issued(i, tcalls[i], AfterDeepLFailed(tcalls[i]))
  /\ UNCHANGED << translationCache, env, seen, req, home, inflight, lastIssued >>
  /\ UNCHANGED << runVars, fieldVars, storeVars >>

\* await translateWithGoogle(text) resolves: cache, return
GoogleResolves ==
  /\ \E i \in 1..Len(tcalls) : \E result \in ProviderOutputs :
       /\ tcalls[i].at = "google"
       /\ translationCache' = CacheSet(translationCache, tcalls[i].text, result)
       /\ tcalls' = [tcalls EXCEPT ![i] = TranslationResult(@, result, "google")]
  /\ UNCHANGED << requests, env, seen, req, home, inflight, lastIssued >>
  /\ UNCHANGED << runVars, fieldVars, storeVars >>

\* await translateWithGoogle(text) throws
GoogleFails ==
  /\ \E i \in 1..Len(tcalls) :
       /\ tcalls[i].at = "google"
       /\ tcalls' = [tcalls EXCEPT ![i] = AfterGoogleFailed(@)]
  /\ UNCHANGED << requests, translationCache, env, seen, req, home, inflight, lastIssued >>
  /\ UNCHANGED << runVars, fieldVars, storeVars >>

TranslateNext == CallTranslate \/ DeepLResolves \/ DeepLFails \/ GoogleResolves \/ GoogleFails

TranslateSpec == TranslateInit /\ [][TranslateNext]_vars

(* --------------------------- scrape routes ---------------------------- *)

\* `Bearer ${key}`
Bearer(key) == << "Bearer ", key >>

\* request.headers.get("authorization"): absent, the bearer form of two
\* keys, a bare key
AuthHeaders == { <<>>, Bearer("k1"), Bearer("k2"), << "k1" >> }

\* SCRAPE_API_KEY and CRON_SECRET: both unset, or set to different secrets
ApiEnvs == { NoEnv, [NoEnv EXCEPT !.SCRAPE_API_KEY = "k1", !.CRON_SECRET = "k2"] }

\* a check that only asks for some header
Unauthorized_MissingOnly(secret, authHeader) == secret # "" /\ authHeader = <<>>

\* apiKey && authHeader !== `Bearer ${apiKey}`
Unauthorized(secret, authHeader) == secret # "" /\ authHeader # Bearer(secret)

\* the secret that guards a route
SecretOf(route) ==
  IF route = "POST /api/scrape" THEN env.SCRAPE_API_KEY ELSE env.CRON_SECRET

ApiInit ==
  /\ RunIdle /\ FieldIdle /\ StoreIdle
  /\ seen = <<>> /\ translationCache = <<>> /\ tcalls = <<>> /\ requests = <<>>
  /\ home = NoHome /\ inflight = {} /\ lastIssued = <<>>
  /\ env \in ApiEnvs
  /\ req = NoReq

\* everything but the request is left alone
OnlyReq ==
  /\ UNCHANGED << runVars, fieldVars, storeVars >>
  /\ UNCHANGED << seen, env, translationCache, tcalls, requests, home, inflight, lastIssued >>

\* POST /api/scrape?source=..&save=.. arrives
ReceivePost ==
  /\ req.at = "none"
  /\ \E h \in AuthHeaders, source \in {"", "ticket-pia", "nhk-symphony"}, save \in {"", "false"} :
       req' = [route |-> "POST /api/scrape", authorization |-> h, source |-> source,
               save |-> save, at |-> "received", status |-> 0]
  /\ OnlyReq

\* GET /api/cron/scrape arrives
ReceiveCron ==
  /\ req.at = "none"
  /\ \E h \in AuthHeaders :
       req' = [route |-> "GET /api/cron/scrape", authorization |-> h, source |-> "",
               save |-> "", at |-> "received", status |-> 0]
  /\ OnlyReq

\* the authorization test at the head of both handlers: 401, or go on
Authorize ==
  /\ req.at = "received"
  /\ req' = IF Unauthorized(SecretOf(req.route), req.authorization)
            THEN [req EXCEPT !.at = "responded", !.status = 401]
            ELSE [req EXCEPT !.at = "authorized"]
  /\ OnlyReq

\* POST with a source: await runScraper(source, saveToDb)
PostRunScraper ==
  /\ req.at = "authorized" /\ req.route = "POST /api/scrape" /\ req.source # ""
  /\ CallRunScraper
  /\ call'.key = req.source
  /\ call'.saveToDb = (req.save # "false")

\* POST without a source: await runAllScrapers({ saveToDb })
PostRunAll ==
  /\ req.at = "authorized" /\ req.route = "POST /api/scrape" /\ req.source = ""
  /\ CallRunAll
  /\ ~call'.hasSources
  /\ call'.saveToDb = (req.save # "false")

\* the cron handler: await runAllScrapers({ saveToDb: true })
CronRunAll ==
  /\ req.at = "authorized" /\ req.route = "GET /api/cron/scrape"
  /\ CallRunAll
  /\ ~call'.hasSources
  /\ call'.saveToDb

\* the awaited call has returned: NextResponse.json(...)
Respond ==
  /\ req.at = "authorized"
  /\ pc = "done"
  /\ req' = [req EXCEPT !.at = "responded", !.status = 200]
  /\ OnlyReq

ApiNext ==
  \/ ReceivePost
  \/ ReceiveCron
  \/ Authorize
  \/ PostRunScraper
  \/ PostRunAll
  \/ CronRunAll
  \/ Respond
  \/ LoopStart
  \/ LoopExit
  \/ FetchOk
  \/ FetchFail
  \/ Block
  \/ EndPage
  \/ RunReturn
  \/ Upsert
  \/ Delay

ApiSpec == ApiInit /\ [][ApiNext]_vars

(* ----------------------------- main page ------------------------------ *)

\* /api/events requests one page session issues
MaxRequests == 3

\* params.set("limit", "12")
PageLimit == 12

\* the values a filter may be set to
FilterValues(key) == IF key = "area" THEN {"", "Tokyo"} ELSE {"", "art"}

\* useState({ search: "", area: "", category: "", ... }): area and category
EmptyFilters == [area |-> "", category |-> ""]

\* what /api/events answers for a query: the events of that query and
\* page, and the totals of that query
TotalOf(filters) == IF filters.area = "" THEN PageLimit + 1 ELSE PageLimit

EventsResponse(filters, p) ==
  [ events |-> << filters, p >>,
    total |-> TotalOf(filters),
    totalPages |-> (TotalOf(filters) + PageLimit - 1) \div PageLimit ]

\* fetchEvents(): setLoading(true), setError(null), and the fetch of the
\* current filters and page goes out
Fetching(h) == [h EXCEPT !.loading = TRUE, !.error = FALSE]

\* requests issued so far
IssuedCount == IF lastIssued = <<>> THEN 0 ELSE lastIssued.n

\* await fetch(`/api/events?${params}`) with the filters and page of h
Issue(h) ==
  LET r == [n |-> IssuedCount + 1, filters |-> h.filters, page |-> h.page]
  IN /\ inflight' = inflight \cup {r}
     /\ lastIssued' = r

OnlyHome ==
  /\ UNCHANGED << runVars, fieldVars, storeVars >>
  /\ UNCHANGED << seen, env, translationCache, tcalls, requests, req >>

\* first render: the effect on [fetchEvents] runs
Mount ==
  /\ home = NoHome
  /\ home' = [filters |-> EmptyFilters, page |-> 1, events |-> <<>>, totalPages |-> 1,
              total |-> 0, loading |-> TRUE, error |-> FALSE]
  /\ Issue(home')
  /\ OnlyHome

\* handleFilterChange(key, value): setFilters, setPage(1); the new filters
\* object gives a new fetchEvents, whose effect runs
HandleFilterChange ==
  /\ home.page > 0
  /\ IssuedCount < MaxRequests
  /\ \E key \in {"area", "category"} : \E value \in FilterValues(key) :
       home' = Fetching([home EXCEPT !.filters[key] = value, !.page = 1])
  /\ Issue(home')
  /\ OnlyHome

\* handleClearFilters(): setFilters({...}), setPage(1)
HandleClearFilters ==
  /\ home.page > 0
  /\ IssuedCount < MaxRequests
  /\ home' = Fetching([home EXCEPT !.filters = EmptyFilters, !.page = 1])
  /\ Issue(home')
  /\ OnlyHome

\* the pagination is rendered
PaginationShown ==
  /\ home.page > 0 /\ ~home.loading /\ ~home.error
  /\ home.events # <<>> /\ home.totalPages > 1

\* Previous: setPage((p) => Math.max(1, p - 1)), disabled on page 1
PreviousPage ==
  /\ PaginationShown
  /\ home.page # 1
  /\ IssuedCount < MaxRequests
  /\ home' = Fetching([home EXCEPT !.page = IF home.page - 1 < 1 THEN 1 ELSE home.page - 1])
  /\ Issue(home')
  /\ OnlyHome

\* Next: setPage((p) => Math.min(totalPages, p + 1)), disabled on the last page
NextPage ==
  /\ PaginationShown
  /\ home.page # home.totalPages
  /\ home.page + 1 <= home.totalPages
  /\ IssuedCount < MaxRequests
  /\ home' = Fetching([home EXCEPT !.page = home.page + 1])
  /\ Issue(home')
  /\ OnlyHome

\* Try again: onClick={fetchEvents}
TryAgain ==
  /\ home.page > 0 /\ home.error
  /\ IssuedCount < MaxRequests
  /\ home' = Fetching(home)
  /\ Issue(home')
  /\ OnlyHome

\* a fetch resolves with res.ok: setEvents, setTotalPages, setTotal, and
\* setLoading(false) in the finally
FetchResolves ==
  /\ \E r \in inflight :
       LET data == EventsResponse(r.filters, r.page)
       IN /\ home' = [home EXCEPT !.events = data.events, !.totalPages = data.totalPages,
                                  !.total = data.total, !.loading = FALSE]
          /\ inflight' = inflight \ {r}
  /\ UNCHANGED lastIssued
  /\ OnlyHome

\* a fetch rejects, or !res.ok: setError(message), setLoading(false)
FetchRejects ==
  /\ \E r \in inflight :
       /\ home' = [home EXCEPT !.error = TRUE, !.loading = FALSE]
       /\ inflight' = inflight \ {r}
  /\ UNCHANGED lastIssued
  /\ OnlyHome

UiNext ==
  \/ Mount
  \/ HandleFilterChange
  \/ HandleClearFilters
  \/ PreviousPage
  \/ NextPage
  \/ TryAgain
  \/ FetchResolves
  \/ FetchRejects

UiSpec == Init /\ [][UiNext]_vars

(* ------------------------------ claims -------------------------------- *)

\* every event list a run holds: the in-run list and the lists of the results
EventLists == {events} \cup { results[r].events : r \in 1..Len(results) }

\* the absolute url the block resolves to
BlockUrl(link) ==
  IF link = NoLink THEN DefaultUrl(cur, page) ELSE ResolveUrl(cur, page, link)

\* C1: the list of one scrape() never holds two events with the same
\* resolved source_url, in any extractor.
C1_NoTwoEventsSameUrl ==
  \A evs \in EventLists :
    \A i, j \in 1..Len(evs) : i # j => evs[i].source_url # evs[j].source_url

\* C2: a failing fetch of a listing page never makes scrape() throw, keeps the
\* events collected so far, and is followed by the fetch of the next listing
\* page when there is one.
C2_FetchFailureIsolated ==
  [][ (spc = "fetch" /\ failed' = failed + 1)
        => /\ spc' # "thrown"
           /\ events' = events
           /\ (page < Len(ListingPages(cur)) => page' = page + 1 /\ spc' = "fetch") ]_vars

\* C3: the ScraperResult that run() returns holds at least one error entry for
\* each listing-page fetch that failed during the run.
C3_FetchFailuresRecorded ==
  [][ (pc = "running" /\ pc' # "running")
        => Len(results'[Len(results')].errors) >= failed ]_vars

\* the block fails the title check (missing or too short) or lacks a required link
Malformed(title, link) ==
  \/ Len(title) < MinTitleLen(cur, page)
  \/ (link = NoLink /\ LinkRequired(cur, page))

\* events2 keeps every event of events1, in place, up to title_en
KeepsEvents(events1, events2) ==
  /\ Len(events2) >= Len(events1)
  /\ \A i \in 1..Len(events1) :
       [events2[i] EXCEPT !.title_en = events1[i].title_en] = events1[i]

UrlEmitted(url) == \E i \in 1..Len(events) : events[i].source_url = url

TitleEmitted(title) ==
  \E i \in 1..Len(events) : events[i].title_ja = title \/ events[i].title_en = title

\* evs is events with exactly one event appended, for this url and title
AppendedOne(evs, url, title) ==
  /\ Len(evs) = Len(events) + 1
  /\ evs[Len(evs)].source_url = url
  /\ evs[Len(evs)].title_ja = title

\* the event list after the callback has run on block b in the current state
After(b) == ProcessBlock(cur, page, events, b.title, b.link, b.throws)

\* the callback is about to run on a candidate block
AtBlock == spc = "blocks" /\ blocksLeft > 0

\* a step of the callback leaves scrape() on the same page
CallbackReturns ==
  [][ blocksLeft' < blocksLeft => spc' = "blocks" /\ page' = page /\ cur' = cur ]_vars

\* C4 as stated: on every page, a malformed or throwing block yields no event
\* and drops nothing, no error leaves the callback, and every valid block
\* whose url was not emitted before yields one event.
C4_BlockIsolationEveryPage ==
  /\ CallbackReturns
  /\ [](AtBlock =>
         \A b \in Blocks(cur) :
           /\ KeepsEvents(events, After(b))
           /\ (b.throws \/ Malformed(b.title, b.link)) => Len(After(b)) = Len(events)
           /\ (~b.throws /\ ~Malformed(b.title, b.link) /\ ~UrlEmitted(BlockUrl(b.link)))
                 => AppendedOne(After(b), BlockUrl(b.link), b.title))

\* C4 (amended): a malformed or throwing block yields no event and drops
\* nothing, no error leaves the callback, and, on every page except NHK
\* Symphony's English page, a valid block whose url and title were both not
\* emitted before yields exactly one event.
C4_BlockIsolation ==
  /\ CallbackReturns
  /\ [](AtBlock =>
         \A b \in Blocks(cur) :
           /\ KeepsEvents(events, After(b))
           /\ (b.throws \/ Malformed(b.title, b.link)) => Len(After(b)) = Len(events)
           /\ (/\ ~b.throws /\ ~Malformed(b.title, b.link)
               /\ ~(cur = NHK /\ page = 2)
               /\ ~UrlEmitted(BlockUrl(b.link)) /\ ~TitleEmitted(b.title))
                 => AppendedOne(After(b), BlockUrl(b.link), b.title))

\* two blocks of Japan Travel's first page were processed, one of them
\* malformed or throwing, the other one emitted
C4_Witness ==
  /\ call.kind = "run" /\ cur = JT /\ page = 1 /\ spc = "blocks"
  /\ blocksLeft = MaxBlocks - 2
  /\ Len(events) = 1

\* C5: in runAllScrapers an extractor whose scrape() throws is reported as
\* an outcome with zero events and exactly one error, totalErrors grows by
\* one, the loop goes on to the inter-source delay, and at the end every
\* selected source has been run and reported, in order.
C5_OrchestratorIsolation ==
  [][ /\ (call.kind = "runAll" /\ pc = "running" /\ spc = "thrown" /\ pc' # "running")
         => /\ Len(results') = Len(results) + 1
            /\ results'[Len(results')].source = cur
            /\ results'[Len(results')].events = <<>>
            /\ Len(results'[Len(results')].errors) = 1
            /\ SubSeq(results', 1, Len(results)) = results
            /\ totalErrors' = totalErrors + 1
            /\ totalEvents' = totalEvents
            /\ pc' = "delay"
      /\ (call'.kind = "runAll" /\ pc' = "done")
         => /\ started' = queue'
            /\ Len(results') = Len(queue')
            /\ \A i \in 1..Len(queue') : results'[i].source = queue'[i] ]_vars

\* runAllScrapers has returned; a source whose scrape() threw is reported
\* with no event and one error, and a later source was run after it
C5_Witness ==
  /\ call.kind = "runAll" /\ pc = "done"
  /\ \E i \in 1..Len(results) :
       /\ results[i].events = <<>> /\ Len(results[i].errors) = 1
       /\ i < Len(results)
       /\ results[Len(results)].events # <<>>

\* the key matches no registered extractor
UnknownToRunAll(k) == \A i \in 1..Len(scrapers) : ScraperKey(scrapers[i]) # k

UnknownToRunScraper(k) ==
  \A i \in 1..Len(scrapers) : ScraperKey(scrapers[i]) # toLowerCase(k)

\* the outcome of runScraper for an unknown key
NotFoundOutcome ==
  /\ pc = "done"
  /\ Len(results) = 1
  /\ results[1].source = call.key
  /\ results[1].events = <<>>
  /\ Len(results[1].errors) = 1
  /\ results[1].errors[1][1] = "Scraper not found"
  /\ started = <<>>
  /\ upsertLog = <<>>

\* C6 as stated: an unknown key yields an outcome for that key with zero
\* events and exactly one error, through runScraper and through the sources
\* subset of runAllScrapers, and runs no extractor and writes nothing.
C6_UnknownKeyOutcomeBoth ==
  /\ (call.kind = "runScraper" /\ UnknownToRunScraper(call.key)) => NotFoundOutcome
  /\ (call.kind = "runAll" /\ call.hasSources /\ pc = "done")
       => \A k \in SeqRange(call.sources) :
            UnknownToRunAll(k)
              => \E r \in 1..Len(results) :
                   /\ results[r].source = k
                   /\ results[r].events = <<>>
                   /\ Len(results[r].errors) = 1

\* C6 (amended): runScraper with an unknown key returns an outcome for that
\* key with zero events and exactly one "Scraper not found" error, running no
\* extractor and writing nothing; runAllScrapers ignores an unknown key of its
\* sources subset: it produces no outcome for it, runs only the registered
\* extractors whose key is in the subset, and writes only their events.
C6_UnknownKey ==
  /\ (call.kind = "runScraper" /\ UnknownToRunScraper(call.key)) => NotFoundOutcome
  /\ (call.kind = "runAll" /\ call.hasSources)
       => /\ \A k \in SeqRange(call.sources) :
               UnknownToRunAll(k) => \A r \in 1..Len(results) : results[r].source # k
          /\ \A i \in 1..Len(started) : ScraperKey(started[i]) \in SeqRange(call.sources)
          /\ \A r \in 1..Len(results) :
               ScraperKey(results[r].source) \in SeqRange(call.sources)
          /\ \A u \in 1..Len(upsertLog) :
               ScraperKey(results[upsertLog[u].batch].source) \in SeqRange(call.sources)
          /\ pc = "done" =>
               Len(results) = Cardinality({ i \in 1..Len(scrapers) :
                                  ScraperKey(scrapers[i]) \in SeqRange(call.sources) })

\* runAllScrapers was given a subset with an unknown key and two registered
\* keys and has returned the outcomes of the two
C6_Witness ==
  /\ call.kind = "runAll" /\ pc = "done"
  /\ "no-such-source" \in SeqRange(call.sources)
  /\ Len(results) = 2

\* the upsertEvent calls made for the events of results[r], in call order
BatchLog(r) == SelectSeq(upsertLog, LAMBDA u : u.batch = r)

\* the upsert loop over results[r].events is over (or was never entered)
BatchOver(r) == r < Len(results) \/ pc # "saving"

\* position of a registered extractor in the registry
RegistryIndex(s) == CHOOSE i \in 1..Len(scrapers) : scrapers[i] = s

\* C7: at most one extractor executes at a time; in runAllScrapers extractor
\* k starts only when the outcomes of extractors 1..k-1 are in results, their
\* events have been handed to the store (with persistence) and k-1 delays have
\* elapsed; results holds one outcome per selected extractor, in registry order.
C7_Sequential ==
  /\ Cardinality(active) <= 1
  /\ call.kind = "runAll" =>
       /\ Len(results) <= Len(queue)
       /\ \A i \in 1..Len(results) : results[i].source = queue[i]
       /\ Len(started) <= Len(queue)
       /\ started = SubSeq(queue, 1, Len(started))
       /\ \A i \in 1..Len(queue) : queue[i] \in SeqRange(scrapers)
       /\ \A i, j \in 1..Len(queue) :
            i < j => RegistryIndex(queue[i]) < RegistryIndex(queue[j])
       /\ pc = "running" =>
            /\ active = {queue[idx]}
            /\ Len(started) = idx
            /\ Len(results) = idx - 1
            /\ delays = idx - 1
            /\ \A r \in 1..Len(results) :
                 Len(BatchLog(r)) = IF call.saveToDb THEN Len(results[r].events) ELSE 0
       /\ pc # "running" => active = {}
       /\ pc = "done" => Len(results) = Len(queue)

\* the second extractor of a runAllScrapers is executing after the first
\* one's events were handed to the store
C7_Witness ==
  /\ call.kind = "runAll" /\ pc = "running" /\ idx = 2
  /\ upsertLog # <<>>

\* the log entries of failed upsertEvent calls
FailedLog(log) == SelectSeq(log, LAMBDA u : ~u.ok)

\* the error entries a failed upsert adds to a runScraper outcome
SaveErrors(errors) == SelectSeq(errors, LAMBDA e : e[1] = "Error saving event")

RECURSIVE SumErrors(_)
SumErrors(rs) == IF rs = <<>> THEN 0 ELSE Len(Head(rs).errors) + SumErrors(Tail(rs))

\* C8: with persistence every event of an outcome has upsertEvent attempted
\* exactly once, in list order, whether or not earlier attempts of the batch
\* failed (and never without persistence); each failure adds exactly one
\* error: to totalErrors in runAllScrapers, to the outcome's errors in
\* runScraper.
C8_PersistenceErrors ==
  /\ \A r \in 1..Len(results) :
       LET log == BatchLog(r)
           evs == results[r].events
       IN /\ Len(log) <= Len(evs)
          /\ \A k \in 1..Len(log) : log[k].id = evs[k].id
          /\ (pc = "saving" /\ r = Len(results)) => Len(log) = saveIdx - 1
          /\ BatchOver(r) => Len(log) = IF call.saveToDb THEN Len(evs) ELSE 0
  /\ \A u \in 1..Len(upsertLog) : upsertLog[u].batch \in 1..Len(results)
  /\ call.kind = "runAll" =>
       totalErrors = SumErrors(results) + Len(FailedLog(upsertLog))
  /\ (call.kind = "runScraper" /\ Len(results) = 1) =>
       LET saveErrs == SaveErrors(results[1].errors)
           fails == FailedLog(upsertLog)
       IN /\ Len(saveErrs) = Len(fails)
          /\ \A k \in 1..Len(fails) : saveErrs[k][2] = fails[k].id
          /\ Len(results[1].errors) <= 1 + Len(fails)
          /\ results[1].events # <<>> => Len(results[1].errors) = Len(fails)

\* an upsert of a batch failed and a later event of the same batch was
\* attempted after it
C8_Witness ==
  \E i, j \in 1..Len(upsertLog) :
    /\ i < j
    /\ ~upsertLog[i].ok
    /\ upsertLog[i].batch = upsertLog[j].batch

\* C9: when Tokyo Art Beat's English page and its default-language page both
\* hold a block for the same url, the run keeps exactly one record for the
\* url, with title_ja the default-language title and title_en the English one.
C9_BilingualMerge ==
  [][ (cur = TAB /\ page = 2 /\ spc = "blocks" /\ blocksLeft' < blocksLeft)
        => \A b \in Blocks(TAB) :
             (events' = After(b) /\ ~b.throws /\ ~Malformed(b.title, b.link))
               => \A i \in 1..Len(events) :
                    (events[i].source_url = BlockUrl(b.link) /\ events[i].title_en # Null)
                      => /\ Cardinality({ k \in 1..Len(events') :
                                events'[k].source_url = BlockUrl(b.link) }) = 1
                         /\ events'[i].title_en = events[i].title_en
                         /\ events'[i].title_ja = b.title ]_vars

\* results and the in-run list only grow, and an emitted event changes in
\* title_en at most; Allowed(i, b) says which block b may fill events[i].title_en
FrameExcept(Allowed(_, _)) ==
  /\ \A r \in 1..Len(results) :
       Len(results') >= r /\ results'[r].events = results[r].events
  /\ (pc = "running" /\ pc' # "running" /\ spc = "returned")
       => results'[Len(results')].events = events
  /\ (cur # "" /\ cur' = cur)
       => /\ KeepsEvents(events, events')
          /\ \A i \in 1..Len(events) :
               events'[i].title_en # events[i].title_en
                 => /\ events[i].title_en = Null
                    /\ spc = "blocks" /\ blocksLeft' < blocksLeft
                    /\ \A b \in Blocks(cur) :
                         events' = After(b)
                           => /\ ~b.throws
                              /\ events'[i].title_en = b.title
                              /\ Allowed(i, b)

SameUrl(i, b) == BlockUrl(b.link) = events[i].source_url

SameUrlOrTitlesMatch(i, b) ==
  \/ SameUrl(i, b)
  \/ (cur = NHK /\ page = 2 /\ titlesMatch(events[i].title_ja, b.title))

OneRecordPerId == \A a \in 1..Len(store) : \A b \in 1..Len(store) :
                    store[a].id = store[b].id => a = b

Pushed == out.fn = "callback" /\ ~out.val.throws

\* C12: every event an extractor emits has price_min and price_max both null
\* or both non-null, and when non-null price_min <= price_max.
C12_PriceBounds ==
  Pushed =>
    \/ out.val.price_min = NullPrice /\ out.val.price_max = NullPrice
    \/ /\ out.val.price_min # NullPrice
       /\ out.val.price_max # NullPrice
       /\ out.val.price_min[1] <= out.val.price_max[1]

\* the values of the digit runs of a price text once the characters in
\* removed are taken out
DigitRunValues(priceStr, removed) ==
  { parseInt(run) : run \in DigitRuns(RemoveChars(priceStr, removed)) }

\* {min, max} is the smallest and largest of the values, {null, null} if there is none
ExtremesOf(values, result) ==
  IF values = {}
  THEN result.min = NullPrice /\ result.max = NullPrice
  ELSE /\ result.min # NullPrice /\ result.min[1] \in values
       /\ result.max # NullPrice /\ result.max[1] \in values
       /\ \A v \in values : result.min[1] <= v /\ v <= result.max[1]

\* C13: parsePriceRange (Ticket Pia) and parsePrices (Billboard Live) return
\* as min and max the smallest and largest digit-run value of the text,
\* separators (and for Billboard currency signs) removed, that passes the
\* filter (>= 100; 1000..50000), and {null, null} exactly when none passes.
C13_PriceRangeParsing ==
  /\ out.fn = "parsePriceRange" =>
       ExtremesOf({ v \in DigitRunValues(text.price, {","}) : v >= 100 }, out.val)
  /\ out.fn = "parsePrices" =>
       ExtremesOf({ v \in DigitRunValues(text.price, {",", "yen", "zenyen"}) :
                      v >= 1000 /\ v <= 50000 }, out.val)

\* Ticket Pia's parser returned a range from a text that also held a number
\* under its floor
C13_Witness ==
  /\ out.fn = "parsePriceRange"
  /\ out.val.min # NullPrice
  /\ out.val.min[1] < out.val.max[1]
  /\ \E v \in DigitRunValues(text.price, {","}) : v < 100

\* the date text is missing or matches none of the date patterns of extractor
\* s (for the extractors that hand the text to the Date constructor: the
\* text holds no digit, so no date can be read from it)
MatchesNoDatePattern(s, p) ==
  LET d == text.date
      none(patterns) == \A k \in 1..Len(patterns) : ~match(d, patterns[k], 6).ok
  IN \/ d = <<>>
     \/ CASE s = TP -> none(<< RxFullJa, RxSlash >>)
          [] s = BB -> none(<< RxFullDot, RxShortDot, RxShortJa >>)
          [] s = NHK -> none(<< RxFullJa, RxShortJa >>)
          [] s = KB -> none(<< RxKabukiRange, RxKabukiFullRange, RxShortJa >>)
          [] s = TAB -> none(<< RxEnRange, RxJpRange, RxFullJa, RxEnSingle >>)
          [] s = PARCO -> none(<< RxParcoRange, RxParcoSingle >>)
          [] OTHER -> \A i \in 1..Len(d) : d[i] \notin Digits

\* C14: every emitted event has a non-empty date_start; when the date text
\* is missing or matches none of the extractor's date patterns, date_start
\* is the run date and date_end is null, and the block is not skipped.
C14_DateStartFallback ==
  out.fn = "callback" =>
    /\ Pushed => out.val.date_start # Null /\ Len(out.val.date_start) > 0
    /\ MatchesNoDatePattern(out.source, out.page) =>
         /\ Pushed
         /\ out.val.date_start = Today
         /\ out.val.date_end = Null

\* Ticket Pia's callback pushed an event for a block whose date text holds
\* words but no date
C14_Witness ==
  /\ Pushed
  /\ out.source = TP
  /\ text.date # <<>>
  /\ MatchesNoDatePattern(TP, out.page)
  /\ out.val.date_start = Today

\* C15: whatever the date, price and venue texts of a block with a valid
\* title and link, no normalizer throws and the block is not dropped: the
\* callback pushes its event, and Parco's parseDateRange returns for every input.
C15_NormalizersNeverThrow ==
  /\ out.fn = "callback" => ~out.val.throws
  /\ out.fn = "parseDateRange" => ~out.val.throws

\* the groups of a pattern list one of whose keywords occurs in the text,
\* Latin letters compared without case
GroupsIn(patterns, t) ==
  { k \in 1..Len(patterns) : \E kw \in patterns[k].keywords : Includes(lowerText(t), kw) }

\* the least element of a non-empty set of numbers
Least(ks) == CHOOSE k \in ks : \A j \in ks : k <= j

\* the cities and the categories in their fixed order
CityOrder == << "Tokyo", "Osaka", "Kyoto", "Yokohama", "Nagoya", "Fukuoka", "Sapporo", "Kobe",
                "Hiroshima", "Sendai" >>

CategoryOrder == << "kabuki", "rakugo", "orchestra", "musical", "anime", "concert", "theatre",
                    "festival", "art", "film" >>

\* detectArea and detectCategory return the value of the first group that
\* matches, the fallback when none does, and never an empty value
FirstGroupWins ==
  /\ out.fn = "detectArea" =>
       LET hits == GroupsIn(areaPatterns, text.words)
       IN /\ out.val = IF hits = {} THEN "Japan" ELSE CityOrder[Least(hits)]
          /\ out.val # ""
  /\ out.fn = "detectCategory" =>
       LET hits == GroupsIn(categoryPatterns, text.words)
       IN /\ out.val = IF hits = {} THEN "event" ELSE CategoryOrder[Least(hits)]
          /\ out.val # ""

\* C16 as stated: first matching group wins in both detectors, and a text
\* with both an orchestra/classical keyword and a concert keyword is
\* classified "orchestra".
C16_DetectionOrchestraAlways ==
  /\ FirstGroupWins
  /\ out.fn = "detectCategory" /\ {3, 6} \subseteq GroupsIn(categoryPatterns, text.words)
       => out.val = "orchestra"

\* C16: first matching group wins in both detectors, the fallbacks are
\* "Japan" and "event", and a text with both an orchestra/classical keyword
\* and a concert keyword is classified "orchestra" unless it also holds a
\* kabuki or rakugo keyword (the two groups checked before orchestra).
C16_Detection ==
  /\ FirstGroupWins
  /\ ( /\ out.fn = "detectCategory"
       /\ {3, 6} \subseteq GroupsIn(categoryPatterns, text.words)
       /\ GroupsIn(categoryPatterns, text.words) \cap {1, 2} = {} )
       => out.val = "orchestra"

\* a text with an orchestra keyword, a concert keyword and a third group's
\* keyword was classified "orchestra"
C16_Witness ==
  /\ out.fn = "detectCategory"
  /\ {3, 6} \subseteq GroupsIn(categoryPatterns, text.words)
  /\ Cardinality(GroupsIn(categoryPatterns, text.words)) >= 3
  /\ out.val = "orchestra"

\* n in two digits
TwoDigits(n) == IF n < 10 THEN <<"0">> \o N(n) ELSE N(n)

\* the separators of a short date; "gatsu" stands for the form M月D日
ShortSeparators == {"/", ".", "gatsu"}

\* a text read as a month and a day without a year: digits, a separator,
\* digits (and the day sign after M月D), bare or followed by a weekday;
\* ok is FALSE when the text is no such date
ShortDateParts(t) ==
  LET a == RunLength(t, 1, Digits, Len(t))
      b == RunLength(t, a + 2, Digits, Len(t))
      sep == IF a + 1 <= Len(t) THEN t[a + 1] ELSE ""
      m == parseInt(SubSeq(t, 1, a))
      d == parseInt(SubSeq(t, a + 2, a + 1 + b))
      rest == SubSeq(t, a + 2 + b, Len(t))
  IN [ ok |-> /\ a \in 1..2 /\ b \in 1..2 /\ sep \in ShortSeparators
              /\ m \in 1..12 /\ d \in 1..31
              /\ rest \in (IF sep = "gatsu"
                           THEN { <<"nichi">>, <<"nichi">> \o WeekdaySuffix }
                           ELSE { <<>>, WeekdaySuffix }),
       sep |-> sep, m |-> m, d |-> d ]

\* the date the claim gives month m, day d: this year, or the next when m
\* is before the current month
InferredDate(m, d) ==
  N(IF m < now.month THEN now.year + 1 ELSE now.year) \o <<"-">> \o TwoDigits(m)
    \o <<"-">> \o TwoDigits(d)

\* the parser fn returned the inferred date for every short date written
\* in one of the forms, and null for a short date in another form
InfersYear(fn, forms) ==
  out.fn = fn =>
    LET date == ShortDateParts(text.date)
    IN date.ok =>
         out.val = IF date.sep \in forms THEN InferredDate(date.m, date.d) ELSE Null

\* C17 as stated: the three parsers infer the year of M/D and M.D, and of
\* M月D日 where they support it (Billboard Live, NHK Symphony).
C17_ShortDateYearAllForms ==
  /\ InfersYear("TicketPia.parseJapaneseDate", {"/", "."})
  /\ InfersYear("parseDateStr", {"/", ".", "gatsu"})
  /\ InfersYear("NHK.parseJapaneseDate", {"/", ".", "gatsu"})

\* C17: for a short date in a form the parser supports (Ticket Pia: M/D;
\* Billboard Live: M/D, M.D, M月D日; NHK Symphony: M月D日) the parser returns
\* the current year when M >= current month and the next year when
\* M < current month, month and day zero-padded; for a short date in
\* another form it returns null.
C17_ShortDateYear ==
  /\ InfersYear("TicketPia.parseJapaneseDate", {"/"})
  /\ InfersYear("parseDateStr", {"/", ".", "gatsu"})
  /\ InfersYear("NHK.parseJapaneseDate", {"gatsu"})

\* NHK Symphony's parser rolled a M月D日 date of an earlier month into next year
C17_Witness ==
  /\ out.fn = "NHK.parseJapaneseDate"
  /\ ShortDateParts(text.date).ok
  /\ ShortDateParts(text.date).sep = "gatsu"
  /\ ShortDateParts(text.date).m < now.month
  /\ out.val = N(now.year + 1) \o <<"-">> \o TwoDigits(ShortDateParts(text.date).m)
                 \o <<"-">> \o TwoDigits(ShortDateParts(text.date).d)

\* a text read as a Kabuki run: M1月D1日, a dash, and D2日 (same month) or
\* M2月D2日 (cross-month); ok is FALSE when the text is neither
KabukiRangeParts(t) ==
  LET a == RunLength(t, 1, Digits, Len(t))
      b == RunLength(t, a + 2, Digits, Len(t))
      c == RunLength(t, a + b + 4, Digits, Len(t))
      e == RunLength(t, a + b + c + 5, Digits, Len(t))
      at(i) == IF i <= Len(t) THEN t[i] ELSE ""
      head == /\ a \in 1..2 /\ at(a + 1) = "gatsu" /\ b \in 1..2 /\ at(a + b + 2) = "nichi"
              /\ at(a + b + 3) \in {"nami", "zennami", "-"} /\ c \in 1..2
      same == head /\ at(a + b + c + 4) = "nichi" /\ Len(t) = a + b + c + 4
      cross == /\ head /\ at(a + b + c + 4) = "gatsu" /\ e \in 1..2
               /\ at(a + b + c + e + 5) = "nichi" /\ Len(t) = a + b + c + e + 5
  IN [ ok |-> same \/ cross, cross |-> cross,
       m1 |-> parseInt(SubSeq(t, 1, a)), d1 |-> parseInt(SubSeq(t, a + 2, a + b + 1)),
       x |-> parseInt(SubSeq(t, a + b + 4, a + b + c + 3)),
       d2 |-> parseInt(SubSeq(t, a + b + c + 5, a + b + c + e + 4)) ]

\* year-month-day, month and day in two digits
IsoDate(y, m, d) == N(y) \o <<"-">> \o TwoDigits(m) \o <<"-">> \o TwoDigits(d)

\* C18: parseKabukiDateRange maps 'M月D1日〜D2日' to start Y-M-D1 and end
\* Y-M-D2 (Y the current year), and 'M1月D1日〜M2月D2日' to start Y-M1-D1 and
\* end in month M2, day D2, of year Y+1 exactly when M2 < M1, else Y; so a
\* cross-month text is never read by the same-month rule.
C18_KabukiDateRanges ==
  out.fn = "parseKabukiDateRange" =>
    LET r == KabukiRangeParts(text.date)
    IN r.ok =>
         /\ out.val.start = IsoDate(now.year, r.m1, r.d1)
         /\ ~r.cross => out.val.end = IsoDate(now.year, r.m1, r.x)
         /\ r.cross =>
              out.val.end = IsoDate(IF r.x < r.m1 THEN now.year + 1 ELSE now.year, r.x, r.d2)

\* a run from one month into an earlier month was given an end in the next year
C18_Witness ==
  /\ out.fn = "parseKabukiDateRange"
  /\ KabukiRangeParts(text.date).ok
  /\ KabukiRangeParts(text.date).cross
  /\ KabukiRangeParts(text.date).x < KabukiRangeParts(text.date).m1
  /\ out.val.end = IsoDate(now.year + 1, KabukiRangeParts(text.date).x,
                           KabukiRangeParts(text.date).d2)

\* the extractor whose key is k, "" if there is none
ExtractorOfKey(k) ==
  IF \E s \in ScraperClasses : ScraperKey(s) = k
  THEN CHOOSE s \in ScraperClasses : ScraperKey(s) = k
  ELSE ""

\* C19: each of the eight extractors is selectable by its key (display
\* name in lower case, whitespace as hyphens): runScraper(key) runs it and
\* returns an outcome whose source is its display name, runAllScrapers with
\* sources = [key] runs exactly it, distinct extractors have distinct keys,
\* and the two entry points accept the same keys.
C19_SourceAddressing ==
  /\ \A s1 \in ScraperClasses, s2 \in ScraperClasses :
       ScraperKey(s1) = ScraperKey(s2) => s1 = s2
  /\ (call.kind = "runScraper" /\ started # <<>>) =>
       scrapersToRun(TRUE, << call.key >>) = started
  /\ ( /\ call.kind = "runAll" /\ call.hasSources /\ Len(call.sources) = 1
       /\ pc = "done" /\ started # <<>> ) =>
       FindScraper(call.sources[1]) = started[1]
  /\ (call.kind = "runScraper" /\ ExtractorOfKey(call.key) # "") =>
       /\ started = << ExtractorOfKey(call.key) >>
       /\ pc = "done" => Len(results) = 1 /\ results[1].source = ExtractorOfKey(call.key)
  /\ ( /\ call.kind = "runAll" /\ call.hasSources /\ Len(call.sources) = 1
       /\ ExtractorOfKey(call.sources[1]) # "" /\ pc = "done" ) =>
       started = << ExtractorOfKey(call.sources[1]) >>

\* the block passes the title check, has the link its page requires and
\* its callback does not throw
ValidBlock(b) == ~b.throws /\ ~Malformed(b.title, b.link)

\* the callback pushes nothing for block b
Skipped(b) == Len(After(b)) = Len(events)

\* an earlier event of the run has this url and this title
UrlAndTitleEmitted(url, title) ==
  \E i \in 1..Len(events) : events[i].source_url = url /\ events[i].title_ja = title

\* the pages whose duplicate test also looks at titles alone
SkipsOnTitle(s, p) == s = TAB \/ (s = PARCO /\ p = 2) \/ (s = KB /\ p = 2)

\* C20 as stated: a valid block is skipped only when its resolved url was
\* emitted earlier in the run, and a valid block with a link whose url was
\* not emitted yields a new event, whatever its title.
C20_NoFalseDedupUrlOnly ==
  AtBlock =>
    \A b \in Blocks(cur) :
      ValidBlock(b) =>
        /\ Skipped(b) => UrlEmitted(BlockUrl(b.link))
        /\ (b.link # NoLink /\ ~UrlEmitted(BlockUrl(b.link)))
              => AppendedOne(After(b), BlockUrl(b.link), b.title)

\* C20 (amended): on every page except NHK Symphony's English page, a valid
\* block is skipped only when its url or its title was emitted earlier in the
\* run (on NHK Symphony's page only when one earlier event has both); where
\* the duplicate test does not look at titles alone, a valid block whose url
\* was not emitted yields a new event even if its title was emitted; on Tokyo
\* Art Beat, Parco's Shibuya page and Kabuki-bito's schedule page a valid
\* block whose title_ja was emitted is skipped even if its url is new.
C20_NoFalseDedup ==
  (AtBlock /\ ~(cur = NHK /\ page = 2)) =>
    \A b \in Blocks(cur) :
      ValidBlock(b) =>
        /\ Skipped(b) => (UrlEmitted(BlockUrl(b.link)) \/ TitleEmitted(b.title))
        /\ (cur = NHK /\ Skipped(b)) => UrlAndTitleEmitted(BlockUrl(b.link), b.title)
        /\ (~SkipsOnTitle(cur, page) /\ ~UrlEmitted(BlockUrl(b.link)))
              => AppendedOne(After(b), BlockUrl(b.link), b.title)
        /\ (/\ SkipsOnTitle(cur, page)
            /\ \E i \in 1..Len(events) : events[i].title_ja = b.title)
              => Skipped(b)

\* Ticket Pia's callback has emitted two events with one title and two urls
C20_Witness ==
  /\ cur = TP /\ spc = "blocks" /\ Len(events) = 2
  /\ events[1].title_ja = events[2].title_ja
  /\ events[1].source_url # events[2].source_url

\* the category the claim gives each path
CategoryOfPath(path) ==
  CASE path = "/pia/events/music/" -> "concert"
    [] path = "/pia/events/classic/" -> "orchestra"
    [] path = "/pia/events/stage/" -> "theatre"
    [] path = "/pia/events/musical/" -> "musical"
    [] path = "/pia/events/rakugo/" -> "rakugo"
    [] path = "/pia/events/anime/" -> "anime"

\* the resolved url of a block the callback ran on, <<>> without a link
SeenUrl(k) ==
  IF seen[k].block.link = NoLink THEN <<>>
  ELSE ResolveUrl(TP, seen[k].page, seen[k].block.link)

\* the block was usable: title of two characters or more, a link, no throw
SeenUsable(k) ==
  /\ ~seen[k].block.throws
  /\ Len(seen[k].block.title) >= 2
  /\ seen[k].block.link # NoLink

\* the first block, among those of ks, that carried url
FirstOf(ks, url) ==
  LET hits == { k \in ks : SeenUrl(k) = url }
  IN CHOOSE k \in hits : \A j \in hits : k <= j

\* paths are fetched in the order music, classic, stage, musical, rakugo, anime
PiaFetchOrder ==
  /\ seen # <<>> => \A k \in 1..(Len(seen) - 1) : seen[k].page <= seen[k + 1].page
  /\ ListingPages(TP) = << "/pia/events/music/", "/pia/events/classic/", "/pia/events/stage/",
                           "/pia/events/musical/", "/pia/events/rakugo/", "/pia/events/anime/" >>

\* every event is tagged [category, "tickets-available"] and no url is emitted twice
PiaTagsAndOnce ==
  /\ \A i \in 1..Len(events) : events[i].tags = << events[i].category, "tickets-available" >>
  /\ \A i, j \in 1..Len(events) : i # j => events[i].source_url # events[j].source_url

\* C21 as stated: the paths are fetched in order, every emitted event has the
\* category of the path on which its url was first encountered, tags
\* [category, "tickets-available"], and a url met on several paths is
\* emitted once.
C21_CategoryOfFirstEncounter ==
  cur = TP =>
    /\ PiaFetchOrder
    /\ PiaTagsAndOnce
    /\ \A i \in 1..Len(events) :
         events[i].category =
           CategoryOfPath(ListingPages(TP)[seen[FirstOf(1..Len(seen), events[i].source_url)].page])

\* C21 (amended): the paths are fetched in order, every emitted event has the
\* category of the first path on which a usable block (title of two
\* characters or more, a link, extraction not throwing) carried its url,
\* tags [category, "tickets-available"]; a url is emitted once, and every
\* url carried by a usable block is emitted.
C21_CategoryOfFirstUsable ==
  cur = TP =>
    LET usable == { k \in 1..Len(seen) : SeenUsable(k) }
    IN /\ PiaFetchOrder
       /\ PiaTagsAndOnce
       /\ \A i \in 1..Len(events) :
            /\ \E k \in usable : SeenUrl(k) = events[i].source_url
            /\ events[i].category =
                 CategoryOfPath(ListingPages(TP)[seen[FirstOf(usable, events[i].source_url)].page])
       /\ \A k \in usable : \E i \in 1..Len(events) : events[i].source_url = SeenUrl(k)

\* one url was carried by usable blocks of two different paths and is
\* emitted once, with the category of the earlier path
C21_Witness ==
  /\ cur = TP /\ Len(seen) = 2 /\ Len(events) = 1
  /\ SeenUsable(1) /\ SeenUsable(2)
  /\ SeenUrl(1) = SeenUrl(2)
  /\ seen[1].page = 2 /\ seen[2].page = 5
  /\ events[1].category = "orchestra"

\* C22: between any two consecutive category-page fetches of one scrape()
\* of Ticket Pia the 500 ms pause elapses, whether the earlier fetch
\* succeeded or failed.
C22_PauseBetweenFetches ==
  [][ (cur = TP /\ spc' = "fetch" /\ page' = page + 1) => spc = "pause" ]_vars

\* how many characters of t are in set
CountIn(t, set) == Cardinality({ i \in 1..Len(t) : t[i] \in set })

\* a-z and A-Z
AsciiLetters ==
  {"a", "b", "c", "d", "e", "f", "g", "h", "i", "j", "k", "l", "m", "n", "o", "p", "q",
   "r", "s", "t", "u", "v", "w", "x", "y", "z",
   "A", "B", "C", "D", "E", "F", "G", "H", "I", "J", "K", "L", "M", "N", "O", "P", "Q",
   "R", "S", "T", "U", "V", "W", "X", "Y", "Z"}

\* twice the Latin letters exceed the non-whitespace characters
PrimarilyLatin(t) ==
  2 * CountIn(t, AsciiLetters) > Len(t) - CountIn(t, {" ", "tab", "lf", "zenspace"})

\* C23: isEnglishText(title) holds exactly when twice the number of a-z/A-Z
\* characters exceeds the number of non-whitespace characters (so not for
\* exactly one half, nor for a title without non-whitespace characters), and
\* every Billboard Live event has title_en equal to its title when the title
\* is so classified and null otherwise.
C23_LatinScriptRatio ==
  /\ out.fn = "isEnglishText" => out.val = PrimarilyLatin(text.words)
  /\ out.fn = "events.push" =>
       out.val.title_en = IF PrimarilyLatin(text.words) THEN text.words ELSE Null

\* a title with inner whitespace and exactly one half Latin letters was
\* pushed with title_en null
C23_Witness ==
  /\ out.fn = "events.push"
  /\ CountIn(text.words, {" ", "zenspace"}) > 0
  /\ 2 * CountIn(text.words, AsciiLetters) = CountIn(text.words, {"a", "Z", "bi", "9"})
  /\ CountIn(text.words, AsciiLetters) > 0
  /\ out.val.title_en = Null

\* the providers call i has requested, in order
RequestedBy(i) ==
  LET mine == SelectSeq(requests, LAMBDA r : r.call = i)
  IN [k \in 1..Len(mine) |-> mine[k].provider]

\* the term replacement the texts must come out with
ExpectedFallback(t) ==
  CASE t = <<"ookii", "uta", "mai", "waza">> -> <<"ookii", "Kabuki">>
    [] OTHER -> t

\* the text is empty or white space only
BlankText(t) == \A k \in 1..Len(t) : t[k] \in {" ", "tab", "lf", "zenspace"}

\* C24: translateJapaneseToEnglish never throws, whatever providers are
\* configured and whichever of them fail; a call that is not answered from
\* the cache tries DeepL first when it is configured, Google only when DeepL
\* is not configured or has failed, and otherwise returns the basic term
\* replacement with provider "fallback"; an empty or whitespace-only text is
\* returned unchanged without any provider request.
C24_TranslationNonFatal ==
  \A i \in 1..Len(tcalls) :
    LET c == tcalls[i]
        reqs == RequestedBy(i)
    IN /\ c.at \in {"deepl", "google", "returned"}
       /\ reqs \in { <<>>, <<"deepl">>, <<"google">>, <<"deepl", "google">> }
       /\ (Len(reqs) > 0 /\ reqs[Len(reqs)] = "google")
            => (env.DEEPL_API_KEY = "" \/ "deepl" \in c.failed)
       /\ (env.DEEPL_API_KEY # "" /\ ~BlankText(c.text) /\ c.provider # "cache")
            => (Len(reqs) > 0 /\ reqs[1] = "deepl")
       /\ (env.DEEPL_API_KEY = "" /\ env.GOOGLE_TRANSLATE_API_KEY # "" /\ ~BlankText(c.text)
             /\ c.provider # "cache")
            => reqs = <<"google">>
       /\ (c.at = "returned" /\ c.provider = "fallback" /\ ~BlankText(c.text))
            => /\ c.translated = ExpectedFallback(c.text)
               /\ env.DEEPL_API_KEY # "" => "deepl" \in c.failed
               /\ env.GOOGLE_TRANSLATE_API_KEY # "" => "google" \in c.failed
       /\ (c.at = "returned" /\ c.provider \in {"deepl", "google"})
            => (c.provider \notin c.failed /\ reqs[Len(reqs)] = c.provider)
       /\ c.at = "returned" => c.provider \in {"deepl", "google", "cache", "fallback"}
       /\ BlankText(c.text)
            => (c.at = "returned" /\ c.translated = c.text /\ c.provider = "fallback"
                  /\ reqs = <<>>)

\* with both providers configured, both failed for a title of known terms
\* and the call returned the term replacement; a blank text was returned too
C24_Witness ==
  /\ Len(tcalls) >= 2
  /\ tcalls[1].text = <<"ookii", "uta", "mai", "waza">>
  /\ tcalls[1].failed = {"deepl", "google"}
  /\ tcalls[1].at = "returned" /\ tcalls[1].provider = "fallback"
  /\ tcalls[1].translated = <<"ookii", "Kabuki">>
  /\ tcalls[2].text = <<" ", "zenspace">> /\ tcalls[2].at = "returned"

\* C25: once a call for text t has returned a translation from DeepL or
\* Google, every later call for t returns that translation with provider
\* "cache" and issues no provider request; what the cache holds came from a
\* provider, never from the fallback; an entry of the cache never changes.
C25_TranslationCache ==
  /\ [](\A i \in 1..Len(tcalls) : \A j \in 1..Len(tcalls) :
          ( /\ i \in tcalls[j].after
            /\ tcalls[i].provider \in {"deepl", "google"}
            /\ tcalls[j].text = tcalls[i].text )
          => /\ tcalls[j].at = "returned"
             /\ tcalls[j].provider = "cache"
             /\ tcalls[j].translated = tcalls[i].translated
             /\ RequestedBy(j) = <<>>)
  /\ [](\A t \in DOMAIN translationCache :
          \E i \in 1..Len(tcalls) :
            /\ tcalls[i].text = t /\ tcalls[i].provider \in {"deepl", "google"}
            /\ tcalls[i].translated = translationCache[t])
  /\ [][ \A t \in DOMAIN translationCache :
           t \in DOMAIN translationCache' /\ translationCache'[t] = translationCache[t] ]_vars

\* the request carries exactly the bearer form of the configured secret
CarriesSecret(secret) == req.authorization = << "Bearer ", secret >>

\* the secret configured for the route of the request, "" if none
ConfiguredSecret ==
  CASE req.route = "POST /api/scrape" -> env.SCRAPE_API_KEY
    [] req.route = "GET /api/cron/scrape" -> env.CRON_SECRET
    [] OTHER -> ""

\* an extractor was run or the store was written
ScrapeHappened == started # <<>> \/ upsertLog # <<>> \/ pc # "idle"

\* C26: when the secret of the route is configured (SCRAPE_API_KEY for POST
\* /api/scrape, CRON_SECRET for GET /api/cron/scrape), a request whose
\* Authorization header is not exactly "Bearer <secret>" is answered with 401
\* and no extractor runs and no store write happens for it; no extractor runs
\* before the authorization test has passed.
C26_ScrapeTriggerProtection ==
  /\ (ConfiguredSecret # "" /\ ~CarriesSecret(ConfiguredSecret))
        => /\ ~ScrapeHappened
           /\ req.at \in {"received", "responded"}
           /\ req.at = "responded" => req.status = 401
  /\ ScrapeHappened => req.at \in {"authorized", "responded"} /\ req.status # 401
  /\ req.status = 401 => ~ScrapeHappened

\* a POST whose header carries another key than the configured one was
\* answered with 401
C26_Witness ==
  /\ req.route = "POST /api/scrape"
  /\ env.SCRAPE_API_KEY = "k1"
  /\ req.authorization = << "Bearer ", "k2" >>
  /\ req.at = "responded" /\ req.status = 401

\* the sum of f over the first n outcomes of results
RECURSIVE SumOver(_, _)
SumOver(lens, n) == IF n = 0 THEN 0 ELSE lens[n] + SumOver(lens, n - 1)

\* C27: in the value runAllScrapers returns, totalEvents is the sum of
\* events.length over results and totalErrors is the sum of errors.length
\* over results, whatever the extractors and the store did.
C27_ReportConsistency ==
  (call.kind = "runAll" /\ pc = "done") =>
    /\ totalEvents = SumOver([i \in 1..Len(results) |-> Len(results[i].events)], Len(results))
    /\ totalErrors = SumOver([i \in 1..Len(results) |-> Len(results[i].errors)], Len(results))

\* a YYYY-MM-DD string whose month is in 1..12 and whose day is in 1..31
WellFormedDate(d) ==
  /\ Len(d) = 10
  /\ d[5] = "-" /\ d[8] = "-"
  /\ \A k \in {1, 2, 3, 4, 6, 7, 9, 10} : d[k] \in Digits
  /\ parseInt(SubSeq(d, 6, 7)) \in 1..12
  /\ parseInt(SubSeq(d, 9, 10)) \in 1..31

\* null, or a well-formed date
NullOrWellFormed(d) == IF d = Null THEN TRUE ELSE WellFormedDate(d)

\* the text is Y/M/D with a four-digit year
SlashDateParts(t) ==
  LET a == RunLength(t, 1, Digits, Len(t))
      b == RunLength(t, a + 2, Digits, Len(t))
      c == RunLength(t, a + b + 3, Digits, Len(t))
  IN [ ok |-> /\ a = 4 /\ b \in 1..2 /\ c \in 1..2
              /\ Len(t) = a + b + c + 2
              /\ t[a + 1] = "/" /\ t[a + b + 2] = "/",
       y |-> parseInt(SubSeq(t, 1, a)),
       m |-> parseInt(SubSeq(t, a + 2, a + 1 + b)),
       d |-> parseInt(SubSeq(t, a + b + 3, a + b + 2 + c)) ]

\* C28: every date the extractors' own parsers return (Ticket Pia, Billboard
\* Live, NHK Symphony, Kabuki-bito, Parco) is null or a YYYY-MM-DD string
\* with month in 1..12 and day in 1..31, for every date text; a full numeric
\* date with slashes given to Ticket Pia yields that date or null, never a
\* date built from the trailing digits of the year.
C28_WellFormedDates ==
  /\ out.fn \in {"TicketPia.parseJapaneseDate", "parseDateStr", "NHK.parseJapaneseDate"}
       => NullOrWellFormed(out.val)
  /\ out.fn = "parseKabukiDateRange"
       => WellFormedDate(out.val.start) /\ NullOrWellFormed(out.val.end)
  /\ (out.fn = "parseDateRange" /\ ~out.val.throws)
       => WellFormedDate(out.val.start) /\ NullOrWellFormed(out.val.end)
  /\ (out.fn = "TicketPia.parseJapaneseDate" /\ SlashDateParts(text.date).ok)
       => LET p == SlashDateParts(text.date)
          IN out.val \in { Null, IsoDate(p.y, p.m, p.d) }

\* a text read as a Parco period without a year: M, 月 or a dot, D1, an
\* optional 日, a dash, and D2 (same month) or M2, 月 or a dot, D2, each with
\* an optional 日; ok is FALSE when the text is neither
ParcoRangeParts(t) ==
  LET n == Len(t)
      at(k) == IF k <= n THEN t[k] ELSE ""
      a == RunLength(t, 1, Digits, n)
      b == RunLength(t, a + 2, Digits, n)
      dashAt == IF at(a + b + 2) = "nichi" THEN a + b + 3 ELSE a + b + 2
      c == RunLength(t, dashAt + 1, Digits, n)
      afterC == dashAt + c + 1
      sameMonth == afterC > n \/ (afterC = n /\ at(afterC) = "nichi")
      d == RunLength(t, afterC + 1, Digits, n)
      afterD == afterC + d + 1
      cross == /\ at(afterC) \in {"gatsu", "."} /\ d \in 1..2
               /\ (afterD > n \/ (afterD = n /\ at(afterD) = "nichi"))
  IN [ ok |-> /\ a \in 1..2 /\ b \in 1..2 /\ c \in 1..2
              /\ at(a + 1) \in {"gatsu", "."}
              /\ at(dashAt) \in {"nami", "zennami", "-", "endash"}
              /\ (sameMonth \/ cross),
       cross |-> ~sameMonth,
       m1 |-> parseInt(SubSeq(t, 1, a)),
       d1 |-> parseInt(SubSeq(t, a + 2, a + 1 + b)),
       x |-> parseInt(SubSeq(t, dashAt + 1, dashAt + c)),
       d2 |-> IF sameMonth THEN 0 ELSE parseInt(SubSeq(t, afterC + 1, afterC + d)) ]

\* C29: for a range whose end part carries only a day ('M月D1日〜D2日',
\* 'M.D1～D2', D2 of one or two digits) Parco's parseDateRange returns start
\* Y-M-D1 and end Y-M-D2 in the start month; for a range whose end part
\* carries month and day it returns end Y-M2-D2 (Y the current year).
C29_ParcoDateRanges ==
  out.fn = "parseDateRange" =>
    LET r == ParcoRangeParts(text.date)
    IN r.ok =>
         /\ ~out.val.throws
         /\ out.val.start = IsoDate(now.year, r.m1, r.d1)
         /\ ~r.cross => out.val.end = IsoDate(now.year, r.m1, r.x)
         /\ r.cross => out.val.end = IsoDate(now.year, r.x, r.d2)

\* what /api/events answers to a request
AnsweredEvents(r) == << r.filters, r.page >>

AnsweredTotal(r) == IF r.filters.area = "Tokyo" THEN 12 ELSE 13

AnsweredTotalPages(r) == IF AnsweredTotal(r) > 12 THEN 2 ELSE 1

\* every request has completed and none failed since the last one went out
Settled == home.page > 0 /\ inflight = {} /\ ~home.error

\* C30: on the main page, once every /api/events request has completed
\* (and none of them failed since the last one went out), the displayed
\* events, total and totalPages are those of the response to the most
\* recently issued request: a slower response to an earlier request never
\* stays on the screen.
C30_ResultFreshness ==
  Settled =>
    /\ home.events = AnsweredEvents(lastIssued)
    /\ home.total = AnsweredTotal(lastIssued)
    /\ home.totalPages = AnsweredTotalPages(lastIssued)

\* the second half of C30, which the page does keep: every change of the
\* filters puts the page back to 1
FilterChangeResetsPage ==
  [][ (home.page > 0 /\ home'.filters # home.filters) => home'.page = 1 ]_vars

====
